---- MODULE Spec2Model ----
(***************************************************************************)
(* Model of the spreadsheet chat-transcript viewer/editor:                 *)
(*   - the row decoder rowToMessages (Q{k}/R{k}/N{k}/Expected* columns),   *)
(*   - the export column ordering and cell mapping of downloadExcel,       *)
(*   - the multi-select and the single-select filter engines,              *)
(*   - the Add Chat submit handler with its remote fetch.                  *)
(*                                                                         *)
(* JavaScript values are records [t, s]: t is the type tag and s the text  *)
(* String(v) renders, as a sequence of one-character strings.  A row is a  *)
(* JavaScript object: a sequence of cells [col, val] in key insertion      *)
(* order, with no column twice.                                            *)
(***************************************************************************)
EXTENDS Integers, Sequences, FiniteSets, TLC

VARIABLES
    row,            \* the row object handed to rowToMessages
    dec,            \* the decoder's loop state: k, msgs, done
    allRows,        \* the in-memory rows
    identifierCols, \* metadata columns of the loaded sheet
    filterOptions,  \* the option values of each filter dropdown that was built
    activeFilters,  \* the selection of each filter that has an entry
    filteredRows,   \* the rows that pass the filters, as indices into allRows
    activeIndex,    \* <<>> for null, <<i>> for the number i
    nextId,         \* next identifier for an ingested chat
    addChatBtn,     \* "enabled" | "disabled": the Add Chat button
    fetch,          \* the exchanges fetches awaited by the submit handler
    alertMsg,       \* text of the last alert shown
    wsData,         \* the table handed to the spreadsheet writer by the last export
    currentRow,     \* the row the detail view shows, as <<index into allRows>>;
                    \* <<>> when it shows none or a row that is no longer in allRows
    uncaught,       \* name of the exception a handler has let escape, "" if none so far
    chatForm,       \* the project and chat dropdowns of the Add Chat form, the chat
                    \* lists behind them and the chat-list fetches awaited
    projects,       \* the project picklist in memory
    localStorage,   \* the 'projects' entry of local storage: <<>> when absent,
                    \* <<list>> when it holds the JSON text of list
    projectNameSelect, \* the option values of the picklist dropdown
    addProjectForm, \* the inputs of the Add Project form
    sortCol,        \* <<>> for null, <<c>> for the column c the list is sorted by
    sortAsc,        \* whether the list is sorted in ascending order
    timeZone,       \* the browser's time zone: the minutes its clock is ahead of
                    \* UTC, on 1899-12-30 (then) and on the dates of today (now)
    fileInput       \* the file input and the sheet dropdown: the file selected
                    \* last, the files whose arrayBuffer() is awaited, sheetNames,
                    \* currentSheet and the workbook sheetSelect.onchange reads

vars == <<row, dec, allRows, identifierCols, filterOptions, activeFilters,
          filteredRows, activeIndex, nextId, addChatBtn, fetch, alertMsg, wsData,
          currentRow, uncaught, chatForm, projects, localStorage, projectNameSelect,
          addProjectForm, sortCol, sortAsc, timeZone, fileInput>>

appVars == <<allRows, identifierCols, filterOptions, activeFilters, filteredRows,
             activeIndex, nextId, addChatBtn, fetch, alertMsg, wsData, currentRow,
             uncaught, chatForm, projects, localStorage, projectNameSelect,
             addProjectForm, sortCol, sortAsc, timeZone, fileInput>>

picklistVars == <<projects, localStorage, projectNameSelect, addProjectForm>>

sortVars == <<sortCol, sortAsc>>

-----------------------------------------------------------------------------
(* Bounds *)

\* highest pair index k for which a sheet carries Q{k}/R{k}/N{k}/Expected columns
MaxPair == 3
\* most keys a row object of the decoder's input set holds
MaxKeys == 3
\* most fetches, or file reads, of one kind in flight at a time
MaxInFlight == 2

-----------------------------------------------------------------------------
(* JavaScript values and strings *)

Undefined == [t |-> "undefined", s |-> <<>>]
Null == [t |-> "null", s |-> <<>>]
Str(s) == [t |-> "string", s |-> s]
\* the number 0, which String() renders as "0"
Zero == [t |-> "number", s |-> <<"0">>]

IsSpace(c) == c = " "

RECURSIVE TrimLeft(_)
TrimLeft(s) == IF s # <<>> /\ IsSpace(Head(s)) THEN TrimLeft(Tail(s)) ELSE s

RECURSIVE TrimRight(_)
TrimRight(s) ==
    IF s # <<>> /\ IsSpace(s[Len(s)]) THEN TrimRight(SubSeq(s, 1, Len(s) - 1)) ELSE s

\* String.prototype.trim
Trim(s) == TrimRight(TrimLeft(s))

\* String(v) for a value that is not null or undefined
String(v) == v.s

isBlank(v) ==
    \/ v.t = "null"
    \/ v.t = "undefined"
    \/ (v.t = "string" /\ Trim(v.s) = <<>>)

stableValue(v) == IF v.t = "null" \/ v.t = "undefined" THEN <<>> ELSE String(v)

\* JavaScript truthiness, as `row[col] || ""` and `if (value)` test it
Truthy(v) ==
    /\ v.t # "undefined"
    /\ v.t # "null"
    /\ ~(v.t = "string" /\ v.s = <<>>)
    /\ ~(v.t = "number" /\ v.s = <<"0">>)

-----------------------------------------------------------------------------
(* Row objects *)

Keys(r) == {r[i].col : i \in 1..Len(r)}

HasKey(r, c) == c \in Keys(r)

\* r[c]
Get(r, c) ==
    IF HasKey(r, c)
    THEN (CHOOSE cell \in {r[i] : i \in 1..Len(r)} : cell.col = c).val
    ELSE Undefined

\* r[c] = v: an existing key keeps its place, a new key is appended
Put(r, c, v) ==
    IF HasKey(r, c)
    THEN [i \in 1..Len(r) |-> IF r[i].col = c THEN [col |-> c, val |-> v] ELSE r[i]]
    ELSE Append(r, [col |-> c, val |-> v])

\* column names of the positional convention
QCol(k) == "Q" \o ToString(k)
RCol(k) == "R" \o ToString(k)
NCol(k) == "N" \o ToString(k)
ExpectedUnderscoreCol(i) == "Expected_" \o ToString(i)
ExpectedKCol(k) == "Expected" \o ToString(k)
\* the Expected column of pair k: Expected for k = 1, Expected_{k-1} above
PairExpectedCol(k) == IF k = 1 THEN "Expected" ELSE ExpectedUnderscoreCol(k - 1)

-----------------------------------------------------------------------------
(* rowToMessages *)

\* exchangeIndex of a user turn: the property is not set
NoIndex == -1

UserTurn(q) ==
    [role |-> "user", text |-> String(q), expected |-> Null, note |-> Null,
     exchangeIndex |-> NoIndex]

\* a lookup in which the fallback column Expected{k} is read before the pair's own column
expectedValue_FallbackFirst(r, k) ==
    LET first == Get(r, PairExpectedCol(k))
        fallback == Get(r, ExpectedKCol(k))
    IN  IF ~isBlank(fallback) THEN Str(Trim(String(fallback)))
        ELSE IF ~isBlank(first) THEN Str(Trim(String(first)))
        ELSE Null

\* the priority lookup of the expectation of pair k
expectedValue(r, k) ==
    LET first == Get(r, PairExpectedCol(k))
        fallback == Get(r, ExpectedKCol(k))
    IN  IF ~isBlank(first) THEN Str(Trim(String(first)))
        ELSE IF ~isBlank(fallback) THEN Str(Trim(String(fallback)))
        ELSE Null

noteValue(r, k) ==
    LET n == Get(r, NCol(k))
    IN  IF ~isBlank(n) THEN Str(Trim(String(n))) ELSE Null

\* an assistant turn that counts exchanges from 1
AssistantTurn_IndexFromOne(r, k) ==
    [role |-> "assistant", text |-> String(Get(r, RCol(k))),
     expected |-> expectedValue(r, k), note |-> noteValue(r, k),
     exchangeIndex |-> k]

AssistantTurn(r, k) ==
    [role |-> "assistant", text |-> String(Get(r, RCol(k))),
     expected |-> expectedValue(r, k), note |-> noteValue(r, k),
     exchangeIndex |-> k - 1]

PairBlank(r, k) == isBlank(Get(r, QCol(k))) /\ isBlank(Get(r, RCol(k)))

\* a push order in which the response of a pair is pushed before its question
PairTurns_AssistantFirst(r, k) ==
    (IF ~isBlank(Get(r, RCol(k))) THEN <<AssistantTurn(r, k)>> ELSE <<>>)
    \o (IF ~isBlank(Get(r, QCol(k))) THEN <<UserTurn(Get(r, QCol(k)))>> ELSE <<>>)

\* the turns pair k contributes
PairTurns(r, k) ==
    (IF ~isBlank(Get(r, QCol(k))) THEN <<UserTurn(Get(r, QCol(k)))>> ELSE <<>>)
    \o (IF ~isBlank(Get(r, RCol(k))) THEN <<AssistantTurn(r, k)>> ELSE <<>>)

DecodeStart == [k |-> 1, msgs |-> <<>>, done |-> FALSE]

\* a loop that breaks at the first fully blank pair, with no lookahead
DecodeIter_NoLookahead(r, st) ==
    IF PairBlank(r, st.k)
    THEN [st EXCEPT !.done = TRUE]
    ELSE [st EXCEPT !.msgs = st.msgs \o PairTurns(r, st.k), !.k = st.k + 1]

\* a loop that breaks only after three consecutive fully blank pairs
DecodeIter_LongLookahead(r, st) ==
    IF PairBlank(r, st.k)
    THEN IF PairBlank(r, st.k + 1) /\ PairBlank(r, st.k + 2)
         THEN [st EXCEPT !.done = TRUE]
         ELSE [st EXCEPT !.k = st.k + 1]
    ELSE [st EXCEPT !.msgs = st.msgs \o PairTurns(r, st.k), !.k = st.k + 1]

\* one iteration of the while (true) loop
DecodeIter(r, st) ==
    IF PairBlank(r, st.k)
    THEN IF PairBlank(r, st.k + 1)
         THEN [st EXCEPT !.done = TRUE]
         ELSE [st EXCEPT !.k = st.k + 1]
    ELSE [st EXCEPT !.msgs = st.msgs \o PairTurns(r, st.k), !.k = st.k + 1]

RECURSIVE DecodeRun(_, _)
DecodeRun(r, st) == IF st.done THEN st ELSE DecodeRun(r, DecodeIter(r, st))

rowToMessages(r) == DecodeRun(r, DecodeStart).msgs

-----------------------------------------------------------------------------
(* downloadExcel: the export header and the cell mapping *)

standardCols ==
    <<"Id", "Priority", "Project Name", "Project Description", "Date",
      "Location Run", "User Email", "Project Id", "Chat Id", "Note">>

Range(q) == {q[i] : i \in 1..Len(q)}

\* Set.add of each name in turn: a name already in the set keeps its place, so
\* the set holds acc and then the first occurrence of each name that is new
AddAll(acc, names) ==
    LET added == {i \in 1..Len(names) :
                     /\ names[i] \notin Range(acc)
                     /\ \A j \in 1..(i - 1) : names[j] # names[i]}
        nth(k) == CHOOSE i \in added : Cardinality({j \in added : j <= i}) = k
    IN  acc \o [k \in 1..Cardinality(added) |-> names[nth(k)]]

KeySeq(r) == [i \in 1..Len(r) |-> r[i].col]

\* the union of the keys of all rows, in first-insertion order
RECURSIVE allColumns(_)
allColumns(rows) ==
    IF rows = <<>> THEN <<>>
    ELSE AddAll(allColumns(SubSeq(rows, 1, Len(rows) - 1)), KeySeq(rows[Len(rows)]))

\* the numerals a column name of the model can end in
Numerals == 0..(MaxPair + 1)

\* /^Q\d+$/i, /^R\d+$/i, /^N\d+$/i and /^Expected/i on the column names of the model
MatchesQ(c) == \E k \in Numerals : c = QCol(k)
MatchesR(c) == \E k \in Numerals : c = RCol(k)
MatchesN(c) == \E k \in Numerals : c = NCol(k)
MatchesExpected(c) ==
    \/ c = "Expected"
    \/ \E k \in Numerals : c = ExpectedUnderscoreCol(k) \/ c = ExpectedKCol(k)

\* parseInt(c.match(/\d+/)[0])
NumOf(c) ==
    CHOOSE k \in Numerals :
        c \in {QCol(k), RCol(k), NCol(k), ExpectedUnderscoreCol(k), ExpectedKCol(k)}

\* Array.prototype.sort with the comparator numA - numB (a stable sort)
RECURSIVE InsertByNum(_, _)
InsertByNum(sorted, c) ==
    IF sorted = <<>> THEN <<c>>
    ELSE IF NumOf(sorted[Len(sorted)]) <= NumOf(c) THEN Append(sorted, c)
    ELSE Append(InsertByNum(SubSeq(sorted, 1, Len(sorted) - 1), c), sorted[Len(sorted)])

RECURSIVE SortByNum(_)
SortByNum(cols) ==
    IF cols = <<>> THEN <<>>
    ELSE InsertByNum(SortByNum(SubSeq(cols, 1, Len(cols) - 1)), cols[Len(cols)])

otherCols(rows) == SelectSeq(allColumns(rows), LAMBDA c : c \notin Range(standardCols))

qCols(rows) == SortByNum(SelectSeq(otherCols(rows), MatchesQ))
rCols(rows) == SortByNum(SelectSeq(otherCols(rows), MatchesR))
nCols(rows) == SortByNum(SelectSeq(otherCols(rows), MatchesN))
\* only searched with find(), so its order is of no effect
expectedCols(rows) == SelectSeq(otherCols(rows), MatchesExpected)

Max2(a, b) == IF a >= b THEN a ELSE b

\* cols[i] of a JavaScript array (0-based) when it is there
AtIndex(cols, i) == IF i + 1 <= Len(cols) THEN <<cols[i + 1]>> ELSE <<>>

\* the Expected column pushed at loop index i
ExpectedAt(e, i) ==
    IF i = 0 /\ "Expected" \in Range(e) THEN <<"Expected">>
    ELSE IF ExpectedUnderscoreCol(i) \in Range(e) THEN <<ExpectedUnderscoreCol(i)>>
    ELSE <<>>

\* for (let i = 0; i < maxPairs; i++) { push qCols[i], rCols[i], nCols[i], Expected }
RECURSIVE InterleaveFrom(_, _, _, _, _, _)
InterleaveFrom(q, r, n, e, i, maxPairs) ==
    IF i >= maxPairs THEN <<>>
    ELSE AtIndex(q, i) \o AtIndex(r, i) \o AtIndex(n, i) \o ExpectedAt(e, i)
         \o InterleaveFrom(q, r, n, e, i + 1, maxPairs)

interleavedCols(rows) ==
    LET q == qCols(rows)
        r == rCols(rows)
        n == nCols(rows)
    IN  InterleaveFrom(q, r, n, expectedCols(rows), 0,
                       Max2(Len(q), Max2(Len(r), Len(n))))

orderedColumns(rows) == standardCols \o interleavedCols(rows)

\* row[col] || ""
CellOf(r, c) == IF Truthy(Get(r, c)) THEN Get(r, c) ELSE Str(<<>>)

\* wsData: the header row, then one array of cells per row
ExportTable(rows) ==
    LET header == orderedColumns(rows)
    IN  <<header>> \o [i \in 1..Len(rows) |->
                          [j \in 1..Len(header) |-> CellOf(rows[i], header[j])]]

-----------------------------------------------------------------------------
(* The decoder's input set: rows of at most MaxKeys keys over the columns of *)
(* pairs 1..MaxPair, each cell blank or non-blank.                           *)

Pairs == 1..MaxPair

RECURSIVE PairColsFrom(_)
PairColsFrom(k) ==
    IF k > MaxPair THEN <<>>
    ELSE <<QCol(k), RCol(k), NCol(k), PairExpectedCol(k), ExpectedKCol(k)>>
         \o PairColsFrom(k + 1)

DecodeCols == PairColsFrom(1)

\* the blank and the non-blank sample value of a column
BlankValue(c) ==
    IF c \in {RCol(k) : k \in Pairs} \cup {PairExpectedCol(k) : k \in Pairs} \cup {"Id"}
    THEN Str(<<>>)
    ELSE Str(<<" ">>)

NonBlankValue(c) ==
    IF c \in {QCol(k) : k \in Pairs} THEN Str(<<" ", "q">>)
    ELSE IF c \in {RCol(k) : k \in Pairs} THEN Str(<<"r">>)
    ELSE IF c \in {NCol(k) : k \in Pairs} THEN Str(<<" ", "n">>)
    ELSE IF c \in {PairExpectedCol(k) : k \in Pairs} THEN Str(<<" ", "y", " ">>)
    ELSE IF c = "Id" THEN Zero
    ELSE Str(<<"z", " ">>)

\* the row with the columns cols[idx[1]], cols[idx[2]], ... in this order, the
\* i-th cell non-blank iff nb[i]
RowOf(cols, idx, nb) ==
    [i \in 1..Len(idx) |->
        [col |-> cols[idx[i]],
         val |-> IF nb[i] THEN NonBlankValue(cols[idx[i]]) ELSE BlankValue(cols[idx[i]])]]

Ascending(idx) == \A i \in 1..(Len(idx) - 1) : idx[i] < idx[i + 1]

\* row is a row of at most n keys over cols, in the order of cols
IsRowOver(r, cols, n) ==
    \E m \in 0..n :
        \E idx \in [1..m -> 1..Len(cols)] :
            /\ Ascending(idx)
            /\ \E nb \in [1..m -> BOOLEAN] : r = RowOf(cols, idx, nb)

-----------------------------------------------------------------------------
(* Idle values of the application state *)

\* activeIndex = null
NoSelection == <<>>

\* a browser whose clock is, and always was, on UTC
UTC == [then |-> 0, now |-> 0]

\* no file was selected: sheetNames = [], currentSheet = null
NoFile ==
    [file |-> <<>>, reading |-> <<>>, sheetNames |-> <<>>, currentSheet |-> <<>>,
     wb |-> <<>>]

\* the Add Chat form before a project is chosen: no chat list, the chat
\* dropdown and the chat search disabled
NoChatForm ==
    [projectId |-> <<>>, chatId |-> <<>>, chatSearch |-> <<>>,
     chatOptions |-> <<>>, chatSelectDisabled |-> TRUE, chatSearchDisabled |-> TRUE,
     availableChats |-> <<>>, filteredChats |-> <<>>, chatsFetch |-> <<>>]

NoFilters == [c \in {} |-> Null]

\* the Add Project form with both inputs empty
EmptyProjectForm == [newProjectName |-> <<>>, projectDescription |-> <<>>]

\* the picklist page was not opened: nothing stored, nothing listed
PicklistIdle ==
    /\ projects = <<>>
    /\ localStorage = <<>>
    /\ projectNameSelect = <<<<>>>>
    /\ addProjectForm = EmptyProjectForm

\* no sort column chosen, ascending order
SortIdle == sortCol = <<>> /\ sortAsc = TRUE

ViewIdle ==
    /\ identifierCols = <<>>
    /\ filterOptions = NoFilters
    /\ activeFilters = NoFilters
    /\ filteredRows = <<>>
    /\ activeIndex = NoSelection
    /\ nextId = 1
    /\ addChatBtn = "enabled"
    /\ fetch = <<>>
    /\ alertMsg = ""
    /\ wsData = <<>>
    /\ currentRow = NoSelection
    /\ uncaught = ""
    /\ chatForm = NoChatForm
    /\ PicklistIdle
    /\ SortIdle

NoSheet == allRows = <<>> /\ ViewIdle

DecoderIdle ==
    /\ row = <<>>
    /\ dec = DecodeStart

-----------------------------------------------------------------------------
(* Numbers in cells *)

Digits == <<"0", "1", "2", "3", "4", "5", "6", "7", "8", "9">>

IsDigit(c) == c \in Range(Digits)

DigitVal(c) == (CHOOSE d \in 1..Len(Digits) : Digits[d] = c) - 1

\* String(n) for an integer n >= 0
RECURSIVE NumStr(_)
NumStr(n) ==
    IF n < Len(Digits) THEN <<Digits[n + 1]>>
    ELSE Append(NumStr(n \div Len(Digits)), Digits[(n % Len(Digits)) + 1])

Num(n) == [t |-> "number", s |-> NumStr(n)]

RECURSIVE DigitPrefixVal(_, _)
DigitPrefixVal(s, acc) ==
    IF s # <<>> /\ IsDigit(Head(s))
    THEN DigitPrefixVal(Tail(s), acc * Len(Digits) + DigitVal(Head(s)))
    ELSE acc

\* parseInt(v) for a non-negative numeral: <<n>>, or <<>> for NaN
parseInt(v) ==
    LET s == TrimLeft(String(v))
    IN  IF v.t \in {"string", "number"} /\ s # <<>> /\ IsDigit(Head(s))
        THEN <<DigitPrefixVal(s, 0)>>
        ELSE <<>>

-----------------------------------------------------------------------------
(* Single-select filters, row list and sheet loading *)

FILTER_COLUMNS == <<"Priority", "Location Run", "User Email", "Project Name">>

detectIdentifierCols(headers) ==
    SelectSeq(headers,
              LAMBDA h : ~MatchesQ(h) /\ ~MatchesR(h) /\ ~MatchesN(h) /\ ~MatchesExpected(h))

\* the distinct non-empty string-coerced values of a column
DistinctValues(rows, col) ==
    {stableValue(Get(rows[i], col)) : i \in 1..Len(rows)} \ {<<>>}

\* the filter columns buildFilters makes a dropdown and an activeFilters entry for
FilterColsBuilt(rows) ==
    {c \in Range(FILTER_COLUMNS) :
        /\ rows # <<>>
        /\ HasKey(rows[1], c)
        /\ DistinctValues(rows, c) # {}}

\* the dropdown options buildFilters creates (besides "All")
buildFilterOptions(rows) == [c \in FilterColsBuilt(rows) |-> DistinctValues(rows, c)]

\* activeFilters after buildFilters: null ("All") for every dropdown built
buildFilters(rows) == [c \in FilterColsBuilt(rows) |-> Null]

\* activeFilters[col]
FilterValue(af, col) == IF col \in DOMAIN af THEN af[col] ELSE Undefined

\* the body of the callback of rows.filter in applyFilters
RowPasses(r, af) ==
    \A col \in Range(FILTER_COLUMNS) :
        \/ FilterValue(af, col) = Null
        \/ Str(stableValue(Get(r, col))) = FilterValue(af, col)

applyFilters(rows, af) ==
    SelectSeq([i \in 1..Len(rows) |-> i], LAMBDA i : RowPasses(rows[i], af))

\* the row renderChat shows once renderRowList(rows) has run with activeIndex
\* null: rows[0] by the autoselect, else the row shown before
renderChatAfterList(rows, shown) == IF rows # <<>> THEN <<rows[1]>> ELSE shown

\* a list rendering without the autoselect of the first row
renderRowList_NoAutoselect(rows, ai) == ai

\* activeIndex after renderRowList(rows): the first row is selected if none is
renderRowList(rows, ai) == IF rows # <<>> /\ ai = NoSelection THEN <<0>> ELSE ai

MaxOf(S) == CHOOSE n \in S : \A m \in S : m <= n

\* loadSheet's scan for the highest Id
NextIdOf(rows) ==
    LET idNum(r) ==
            LET id == IF Truthy(Get(r, "Id")) THEN Get(r, "Id") ELSE Get(r, "ID")
            IN  IF Truthy(id) THEN parseInt(id) ELSE <<0>>
        \* .filter(id => !isNaN(id))
        ids == {idNum(rows[i])[1] : i \in {j \in 1..Len(rows) : idNum(rows[j]) # <<>>}}
    IN  IF rows # <<>> /\ ids # {} THEN MaxOf(ids) + 1 ELSE 1

Headers(rows) == IF rows # <<>> THEN KeySeq(rows[1]) ELSE <<>>

\* loadSheet(wb, sheetName), sheet being the rows sheet_to_json returns
loadSheet(sheet) ==
    /\ allRows' = sheet
    /\ identifierCols' = detectIdentifierCols(Headers(sheet))
    /\ nextId' = NextIdOf(sheet)
    /\ filterOptions' = buildFilterOptions(sheet)
    /\ activeFilters' = buildFilters(sheet)
    /\ filteredRows' = applyFilters(sheet, activeFilters')
    /\ activeIndex' = renderRowList(filteredRows', NoSelection)
    /\ currentRow' = renderChatAfterList(filteredRows', NoSelection)

\* a sheet is loaded, the file input and the sheet dropdown left aside
LoadSheet(sheet) ==
    /\ loadSheet(sheet)
    /\ UNCHANGED <<timeZone, fileInput, row, dec, picklistVars, sortVars, chatForm, uncaught,
                   addChatBtn, fetch, alertMsg, wsData>>

\* the change handler of the dropdown of col; v = <<>> is the option "All"
FilterChange(col, v) ==
    /\ col \in DOMAIN activeFilters
    /\ v \in filterOptions[col] \cup {<<>>}
    /\ activeFilters' = [activeFilters EXCEPT ![col] = IF v = <<>> THEN Null ELSE Str(v)]
    /\ filteredRows' = applyFilters(allRows, activeFilters')
    /\ activeIndex' = renderRowList(filteredRows', NoSelection)
    /\ currentRow' = renderChatAfterList(filteredRows', currentRow)
    /\ UNCHANGED <<timeZone, fileInput, row, dec, picklistVars, sortVars, chatForm, uncaught, allRows, identifierCols, filterOptions, nextId,
                   addChatBtn, fetch, alertMsg, wsData>>

\* item.onclick of the i-th entry of the row list
ClickRow(i) ==
    /\ i \in 0..(Len(filteredRows) - 1)
    /\ activeIndex' = <<i>>
    /\ currentRow' = <<filteredRows[i + 1]>>
    /\ UNCHANGED <<timeZone, fileInput, row, dec, picklistVars, sortVars, chatForm, uncaught, allRows, identifierCols, filterOptions, activeFilters,
                   filteredRows, nextId, addChatBtn, fetch, alertMsg, wsData>>

-----------------------------------------------------------------------------
(* Remote ingestion: exchangesToRow and the Add Chat submit handler *)

\* v || ""
OrEmpty(v) == IF Truthy(v) THEN v ELSE Str(<<>>)

\* parseInt(e.created_at) || 0
TimeOf(e) == IF parseInt(e.created_at) = <<>> THEN 0 ELSE parseInt(e.created_at)[1]

\* [...exchanges].sort((a, b) => timeA - timeB), a stable sort
RECURSIVE InsertByTime(_, _)
InsertByTime(sorted, e) ==
    IF sorted = <<>> THEN <<e>>
    ELSE IF TimeOf(sorted[Len(sorted)]) <= TimeOf(e) THEN Append(sorted, e)
    ELSE Append(InsertByTime(SubSeq(sorted, 1, Len(sorted) - 1), e), sorted[Len(sorted)])

RECURSIVE sortedExchanges(_)
sortedExchanges(exchanges) ==
    IF exchanges = <<>> THEN <<>>
    ELSE InsertByTime(sortedExchanges(SubSeq(exchanges, 1, Len(exchanges) - 1)),
                      exchanges[Len(exchanges)])

\* the text of the current date, read from the clock
dateStr == Str(<<"M", "a", "y", " ", "1", ",", " ", "2", "0", "2", "4">>)

\* the cells the forEach of exchangesToRow sets for the exchanges from index k on
RECURSIVE ExchangeCells(_, _)
ExchangeCells(sorted, k) ==
    IF k > Len(sorted) THEN <<>>
    ELSE <<[col |-> QCol(k), val |-> OrEmpty(sorted[k].query)],
           [col |-> RCol(k), val |-> OrEmpty(sorted[k].response)],
           [col |-> NCol(k), val |-> Str(<<>>)],
           [col |-> PairExpectedCol(k), val |-> Str(<<>>)]>>
         \o ExchangeCells(sorted, k + 1)

\* exchangesToRow, id being the value of nextId++
exchangesToRow(exchanges, location, userEmail, projectId, chatId, id) ==
    <<[col |-> "Id", val |-> Num(id)],
      [col |-> "Priority", val |-> Str(<<"N", "o", "n", "e">>)],
      [col |-> "Project Name", val |-> Str(<<>>)],
      [col |-> "Project Description", val |-> Str(<<>>)],
      [col |-> "Date", val |-> dateStr],
      [col |-> "Location Run", val |-> location],
      [col |-> "User Email", val |-> userEmail],
      [col |-> "Project Id", val |-> projectId],
      [col |-> "Chat Id", val |-> chatId],
      [col |-> "Note", val |-> Str(<<>>)]>>
    \o ExchangeCells(sortedExchanges(exchanges), 1)

\* most rows allRows holds: a sheet has at most MaxRows rows, and a chat is
\* submitted only while allRows has fewer
MaxRows == 2

\* the values of the form's fields
FormLocation == Str(<<"D", "e", "v">>)
FormUserEmail == Str(<<"u">>)
FormProjectId == Str(<<"p">>)
FormChatId == Str(<<"c">>)

\* the submit handler of addChatForm up to its await
AddChatSubmit ==
    /\ addChatBtn = "enabled"
    /\ Len(allRows) < MaxRows
    /\ addChatBtn' = "disabled"
    /\ fetch' = Append(fetch, [status |-> "inflight", location |-> FormLocation,
                               userEmail |-> FormUserEmail, projectId |-> FormProjectId,
                               chatId |-> FormChatId, exchanges |-> <<>>])
    /\ UNCHANGED <<timeZone, fileInput, row, dec, picklistVars, sortVars, chatForm, uncaught, allRows, identifierCols, filterOptions, activeFilters,
                   filteredRows, activeIndex, nextId, alertMsg, wsData, currentRow>>

\* the exchanges lists the remote service answers with
Exchange(q, r, t) == [query |-> q, response |-> r, created_at |-> t]

\* a timestamp in seconds with one decimal, as a JS number
Seconds(whole, tenth) == [t |-> "number", s |-> NumStr(whole) \o <<".">> \o NumStr(tenth)]

ExchangeLists ==
    {<<Exchange(Str(<<"b">>), Undefined, Num(7)), Exchange(Str(<<"a">>), Str(<<"r">>), Num(3))>>,
     <<Exchange(Str(<<"x">>), Str(<<"y">>), Seconds(5, 7)),
       Exchange(Str(<<"w">>), Str(<<"z">>), Seconds(5, 2))>>}

\* what a fetch ends with: a 2xx response with its exchanges, a non-2xx status,
\* or no response at all (network error)
Responses ==
    {[status |-> "ok", exchanges |-> x] : x \in ExchangeLists}
    \cup {[status |-> "http_error", exchanges |-> <<>>],
          [status |-> "network_error", exchanges |-> <<>>]}

\* the remote service answers the i-th fetch
FetchResponds(i, response) ==
    /\ i \in 1..Len(fetch)
    /\ fetch[i].status = "inflight"
    /\ response \in Responses
    /\ fetch' = [fetch EXCEPT ![i] = [@ EXCEPT !.status = response.status,
                                               !.exchanges = response.exchanges]]
    /\ UNCHANGED <<timeZone, fileInput, row, dec, picklistVars, sortVars, chatForm, uncaught, allRows, identifierCols, filterOptions, activeFilters,
                   filteredRows, activeIndex, nextId, addChatBtn, alertMsg, wsData,
                   currentRow>>

RemoveAt(q, i) == SubSeq(q, 1, i - 1) \o SubSeq(q, i + 1, Len(q))

\* fetchChatExchanges throws on a non-2xx status and on a network error
FetchThrows(f) == f.status # "ok"

\* a handler that builds and appends the row whether or not the fetch threw
RowsAfterAddChat_AppendAlways(rows, f, id) ==
    Append(rows, exchangesToRow(f.exchanges, f.location, f.userEmail,
                                f.projectId, f.chatId, id))

\* a handler that puts the new row in front of the others
RowsAfterAddChat_Prepend(rows, f, id) ==
    IF FetchThrows(f)
    THEN rows
    ELSE <<exchangesToRow(f.exchanges, f.location, f.userEmail,
                          f.projectId, f.chatId, id)>> \o rows

\* allRows when the handler's try block has ended for the fetch f
RowsAfterAddChat(rows, f, id) ==
    IF FetchThrows(f)
    THEN rows
    ELSE Append(rows, exchangesToRow(f.exchanges, f.location, f.userEmail,
                                     f.projectId, f.chatId, id))

\* the alert the handler shows for the fetch f
AlertAfterAddChat(f) ==
    IF FetchThrows(f) THEN "Error adding chat" ELSE "Chat added successfully!"

\* the submit handler from its await on: try, catch and finally
AddChatResume(i) ==
    /\ i \in 1..Len(fetch)
    /\ fetch[i].status # "inflight"
    /\ allRows' = RowsAfterAddChat(allRows, fetch[i], nextId)
    /\ alertMsg' = AlertAfterAddChat(fetch[i])
    /\ IF FetchThrows(fetch[i])
       THEN UNCHANGED <<nextId, identifierCols, filterOptions, activeFilters,
                        filteredRows, activeIndex, currentRow>>
       ELSE /\ nextId' = nextId + 1
            /\ filterOptions' = buildFilterOptions(allRows')
            /\ activeFilters' = buildFilters(allRows')
            /\ filteredRows' = applyFilters(allRows', activeFilters')
            /\ activeIndex' = <<Len(filteredRows') - 1>>
            /\ currentRow' = <<Len(allRows')>>
            /\ UNCHANGED identifierCols
    /\ addChatBtn' = "enabled"
    /\ fetch' = RemoveAt(fetch, i)
    /\ UNCHANGED <<timeZone, fileInput, row, dec, picklistVars, sortVars, chatForm, uncaught, wsData>>

-----------------------------------------------------------------------------
(* Spec: the single-select revision, from page load on *)

SheetHeaders ==
    {<<"Id", "Priority", "Location Run", "User Email", "Project Name", "Q1", "R1">>,
     <<"Id", "Priority", "User Email", "Project Name", "Q1", "R1">>}

\* the cell of column c in the n-th row of a sheet
SheetCell(c, n, priorities, projectNames) ==
    [col |-> c,
     val |-> IF c = "Id" THEN Num(n)
             ELSE IF c = "Priority" THEN Str(priorities[((n - 1) % Len(priorities)) + 1])
             ELSE IF c = "Project Name" THEN Str(projectNames[((n - 1) % Len(projectNames)) + 1])
             ELSE IF c = "Location Run" THEN Str(<<"D", "e", "v">>)
             ELSE IF c = "User Email" THEN Str(<<"u">>)
             ELSE NonBlankValue(c)]

\* sheets of up to MaxRows rows under one header, the priorities alternating
\* between "H" and "L", the project names following one of the patterns
SheetsOf(projectPatterns) ==
    UNION {
        {[n \in 1..len |->
            [j \in 1..Len(h) |-> SheetCell(h[j], n, prio, proj)]] :
           prio \in {<<<<"H">>, <<"L">>>>},
           proj \in projectPatterns} :
        h \in SheetHeaders, len \in 0..MaxRows}

\* the sheets a workbook offers: the project names all empty or all "P"
Sheets == SheetsOf({<<<<>>>>, <<<<"P">>>>})

\* the sheets offered to the multi-select revision: also with project names
\* that alternate between "P" and empty
SheetsMulti == SheetsOf({<<<<>>>>, <<<<"P">>>>, <<<<"P">>, <<>>>>})

Init ==
    /\ NoSheet
    /\ DecoderIdle
    /\ timeZone = UTC
    /\ fileInput = NoFile

-----------------------------------------------------------------------------
(* SpecMulti: the multi-select revision, where activeFilters[col] is the set
   of values selected in the list of col *)

\* detectIdentifierCols of the multi-select revision: /^Q\d+$/i, /^R\d+$/i
\* and /^Expected$/i are chat content
detectIdentifierColsMulti(headers) ==
    SelectSeq(headers, LAMBDA h : ~MatchesQ(h) /\ ~MatchesR(h) /\ h # "Expected")

\* identifierCols.filter((col) => col.toLowerCase() !== "note")
filterableCols(idCols) == SelectSeq(idCols, LAMBDA col : col # "Note")

\* activeFilters after buildFilters: every value of every list selected, and
\* no list for a column without values
buildFiltersMulti(rows, idCols) ==
    [c \in {col \in Range(filterableCols(idCols)) : DistinctValues(rows, col) # {}}
        |-> DistinctValues(rows, c)]

\* a filter callback that lets a row through only on a selected value
RowPassesMulti_BlankExcluded(r, idCols, af) ==
    \A col \in Range(filterableCols(idCols)) :
        (col \in DOMAIN af /\ af[col] # {}) => stableValue(Get(r, col)) \in af[col]

\* the body of the callback of rows.filter in applyFilters
RowPassesMulti(r, idCols, af) ==
    \A col \in Range(filterableCols(idCols)) :
        LET v == stableValue(Get(r, col))
        IN  (col \in DOMAIN af /\ af[col] # {}) => (v = <<>> \/ v \in af[col])

applyFiltersMulti(rows, idCols, af) ==
    SelectSeq([i \in 1..Len(rows) |-> i], LAMBDA i : RowPassesMulti(rows[i], idCols, af))

\* loadSheet of the multi-select revision
LoadSheetMulti(sheet) ==
    /\ allRows' = sheet
    /\ identifierCols' = detectIdentifierColsMulti(Headers(sheet))
    /\ filterOptions' = buildFiltersMulti(sheet, identifierCols')
    /\ activeFilters' = buildFiltersMulti(sheet, identifierCols')
    /\ filteredRows' = applyFiltersMulti(sheet, identifierCols', activeFilters')
    /\ activeIndex' = renderRowList(filteredRows', NoSelection)
    /\ currentRow' = renderChatAfterList(filteredRows', NoSelection)
    /\ UNCHANGED <<timeZone, fileInput, row, dec, picklistVars, sortVars, chatForm, uncaught, nextId, addChatBtn, fetch, alertMsg, wsData>>

\* the change handler of the list of col, chosen being its selected options
FilterChangeMulti(col, chosen) ==
    /\ col \in DOMAIN filterOptions
    /\ chosen \subseteq filterOptions[col]
    /\ activeFilters' = [activeFilters EXCEPT ![col] = chosen]
    /\ filteredRows' = applyFiltersMulti(allRows, identifierCols, activeFilters')
    /\ activeIndex' = renderRowList(filteredRows', NoSelection)
    /\ currentRow' = renderChatAfterList(filteredRows', currentRow)
    /\ UNCHANGED <<timeZone, fileInput, row, dec, picklistVars, sortVars, chatForm, uncaught, allRows, identifierCols, filterOptions, nextId,
                   addChatBtn, fetch, alertMsg, wsData>>

\* clearFiltersBtn.onclick: select everything in every list
ClearFilters ==
    /\ filterableCols(identifierCols) # <<>>
    /\ activeFilters' = [c \in Range(filterableCols(identifierCols))
                            |-> DistinctValues(allRows, c)]
    /\ filteredRows' = applyFiltersMulti(allRows, identifierCols, activeFilters')
    /\ activeIndex' = renderRowList(filteredRows', NoSelection)
    /\ currentRow' = renderChatAfterList(filteredRows', currentRow)
    /\ UNCHANGED <<timeZone, fileInput, row, dec, picklistVars, sortVars, chatForm, uncaught, allRows, identifierCols, filterOptions, nextId,
                   addChatBtn, fetch, alertMsg, wsData>>

NextMulti ==
    \/ \E sheet \in SheetsMulti : LoadSheetMulti(sheet)
    \/ \E col \in DOMAIN filterOptions :
          \E chosen \in SUBSET filterOptions[col] : FilterChangeMulti(col, chosen)
    \/ ClearFilters
    \/ \E i \in 0..(Len(filteredRows) - 1) : ClickRow(i)

SpecMulti == Init /\ [][NextMulti]_vars

-----------------------------------------------------------------------------
(* Dates: parseDateString and convertToExcelDate of the revision that exports
   the Date column as a spreadsheet serial number.  A Date object is
   [t |-> "object", valid, time], time counting the minutes from
   1970-01-01T00:00Z.  The browser's time zone has no daylight saving time *)

UpperLetters == <<"A", "B", "C", "D", "E", "F", "G", "H", "I", "J", "K", "L", "M", "N", "O", "P", "Q", "R", "S", "T", "U", "V", "W", "X", "Y", "Z">>
LowerLetters == <<"a", "b", "c", "d", "e", "f", "g", "h", "i", "j", "k", "l", "m", "n", "o", "p", "q", "r", "s", "t", "u", "v", "w", "x", "y", "z">>

\* String.prototype.toLowerCase, character by character
LowerChar(c) ==
    IF c \in Range(UpperLetters)
    THEN LowerLetters[CHOOSE i \in 1..Len(UpperLetters) : UpperLetters[i] = c]
    ELSE c

toLowerCase(s) == [i \in 1..Len(s) |-> LowerChar(s[i])]

\* the character classes \w, \d and [\/-] of the regular expressions
IsWordChar(c) == c \in Range(UpperLetters) \cup Range(LowerLetters) \cup Range(Digits) \cup {"_"}
IsDateSep(c) == c \in {"/", "-"}

\* the end of the longest run of characters of the class that starts at i
\* (i - 1 when s[i] is not of the class)
RunEnd(s, i, InClass(_)) ==
    LET ends == {j \in (i - 1)..Len(s) : \A k \in i..j : InClass(s[k])}
    IN  CHOOSE j \in ends : \A e \in ends : e <= j

monthNames ==
    <<<<"j", "a", "n", "u", "a", "r", "y">>,
      <<"f", "e", "b", "r", "u", "a", "r", "y">>,
      <<"m", "a", "r", "c", "h">>,
      <<"a", "p", "r", "i", "l">>,
      <<"m", "a", "y">>,
      <<"j", "u", "n", "e">>,
      <<"j", "u", "l", "y">>,
      <<"a", "u", "g", "u", "s", "t">>,
      <<"s", "e", "p", "t", "e", "m", "b", "e", "r">>,
      <<"o", "c", "t", "o", "b", "e", "r">>,
      <<"n", "o", "v", "e", "m", "b", "e", "r">>,
      <<"d", "e", "c", "e", "m", "b", "e", "r">>>>

InvalidDate == [t |-> "object", valid |-> FALSE, time |-> 0]

\* 24 * 60 minutes
DayMinutes == 1440

\* days from 1970-01-01 to the first day of year y
DaysToYear(y) ==
    LET p == y - 1
    IN  p * 365 + (p \div 4) - (p \div 100) + (p \div 400) - 719162

IsLeap(y) == (y % 4 = 0 /\ y % 100 # 0) \/ y % 400 = 0

DaysInMonth(y, m) ==
    IF m = 2 THEN (IF IsLeap(y) THEN 29 ELSE 28)
    ELSE IF m \in {4, 6, 9, 11} THEN 30 ELSE 31

RECURSIVE DaysToMonth(_, _)
DaysToMonth(y, m) == IF m = 1 THEN 0 ELSE DaysToMonth(y, m - 1) + DaysInMonth(y, m - 1)

\* new Date(year, monthIndex, day): a month index outside 0..11 and a day
\* outside the month carry over; a year beyond the range of Date is invalid
DayNumber(year, monthIndex, day) ==
    DaysToYear(year + (monthIndex \div 12))
    + DaysToMonth(year + (monthIndex \div 12), (monthIndex % 12) + 1) + day - 1

\* the minutes the browser's clock is ahead of UTC on a day: standard time
\* zones replaced the local times of 1899 in the years after
OffsetOn(day) == IF day < DaysToYear(1901) THEN timeZone.then ELSE timeZone.now

\* the Date object of 00:00 UTC of a day, of 00:00 local time of a day
DateAtUTC(day) == [t |-> "object", valid |-> TRUE, time |-> day * DayMinutes]
DateAtLocal(day) ==
    [t |-> "object", valid |-> TRUE, time |-> day * DayMinutes - OffsetOn(day)]

\* date.getTime() / 86400000 rounded down: the day of the date in UTC
UTCDay(date) == date.time \div DayMinutes

\* the day of the date on the browser's clock
LocalDay(date) ==
    (date.time + (IF date.time < DaysToYear(1901) * DayMinutes
                  THEN timeZone.then ELSE timeZone.now)) \div DayMinutes

NewDate(year, monthIndex, day) ==
    IF year + (monthIndex \div 12) > 275000 THEN InvalidDate
    ELSE DateAtLocal(DayNumber(year, monthIndex, day))

\* new Date("YYYY-MM-DD"): a date-only text is read as UTC
NewDateUTC(year, monthIndex, day) ==
    IF year + (monthIndex \div 12) > 275000 THEN InvalidDate
    ELSE DateAtUTC(DayNumber(year, monthIndex, day))

\* dateStr.match(/^(\d{4})-(\d{2})-(\d{2})/)
isoMatch(s) ==
    /\ Len(s) >= 10
    /\ \A i \in {1, 2, 3, 4, 6, 7, 9, 10} : IsDigit(s[i])
    /\ s[5] = "-" /\ s[8] = "-"

\* dateStr.match(/(\w+)\s+(\d+),\s+(\d+)/): the captures of the leftmost match
\* as <<word, day, year>>, or <<>> when nothing matches
MonthNameMatchAt(s, i) ==
    IF i < 1 THEN <<>> ELSE
    LET w == RunEnd(s, i, IsWordChar)
        sp == RunEnd(s, w + 1, IsSpace)
        d == RunEnd(s, sp + 1, IsDigit)
        sp2 == RunEnd(s, d + 2, IsSpace)
        y == RunEnd(s, sp2 + 1, IsDigit)
    IN  IF /\ w >= i /\ sp > w /\ d > sp
           /\ d + 1 <= Len(s) /\ s[d + 1] = ","
           /\ sp2 > d + 1 /\ y > sp2
        THEN <<SubSeq(s, i, w), SubSeq(s, sp + 1, d), SubSeq(s, sp2 + 1, y)>>
        ELSE <<>>

\* the leftmost of the places where a match starts, 0 when there is none
Leftmost(starts) ==
    IF starts = {} THEN 0 ELSE CHOOSE i \in starts : \A j \in starts : i <= j

monthNameMatch(s) ==
    MonthNameMatchAt(s, Leftmost({i \in 1..Len(s) : MonthNameMatchAt(s, i) # <<>>}))

\* dateStr.match(/(\d+)[\/-](\d+)[\/-](\d+)/): the three numbers of the
\* leftmost match, or <<>>
NumericMatchAt(s, i) ==
    IF i < 1 THEN <<>> ELSE
    LET a == RunEnd(s, i, IsDigit)
        b == RunEnd(s, a + 2, IsDigit)
        c == RunEnd(s, b + 2, IsDigit)
    IN  IF /\ a >= i /\ a + 1 <= Len(s) /\ IsDateSep(s[a + 1])
           /\ b >= a + 2 /\ b + 1 <= Len(s) /\ IsDateSep(s[b + 1])
           /\ c >= b + 2
        THEN <<DigitPrefixVal(SubSeq(s, i, a), 0), DigitPrefixVal(SubSeq(s, a + 2, b), 0),
               DigitPrefixVal(SubSeq(s, b + 2, c), 0)>>
        ELSE <<>>

numericMatch(s) ==
    NumericMatchAt(s, Leftmost({i \in 1..Len(s) : NumericMatchAt(s, i) # <<>>}))

\* monthNames.indexOf(word.toLowerCase()), from 0; -1 when absent
MonthIndexOf(word) ==
    LET hits == {i \in 1..Len(monthNames) : monthNames[i] = toLowerCase(word)}
    IN  IF hits = {} THEN 0 - 1 ELSE (CHOOSE i \in hits : TRUE) - 1

\* new Date(dateStr) for the shapes of text the engine reads as a date: a
\* whole "YYYY-MM-DD", "Month D, YYYY" and "M/D/YYYY"; any other text is an
\* Invalid Date
DateFromCaptures(s, mn, nm) ==
    IF isoMatch(s) /\ Len(s) = 10
    THEN LET m == DigitPrefixVal(SubSeq(s, 6, 7), 0)
             d == DigitPrefixVal(SubSeq(s, 9, 10), 0)
         IN  IF m \in 1..12 /\ d \in 1..31
             THEN NewDateUTC(DigitPrefixVal(SubSeq(s, 1, 4), 0), m - 1, d)
             ELSE InvalidDate
    ELSE IF mn # <<>> /\ MonthIndexOf(mn[1]) >= 0
    THEN NewDate(DigitPrefixVal(mn[3], 0), MonthIndexOf(mn[1]), DigitPrefixVal(mn[2], 0))
    ELSE IF nm # <<>> /\ nm[3] > 1000 /\ nm[1] \in 1..12 /\ nm[2] \in 1..31
    THEN NewDate(nm[3], nm[1] - 1, nm[2])
    ELSE InvalidDate

DateFromString(s) == DateFromCaptures(s, monthNameMatch(s), numericMatch(s))

\* the branches of parseDateString on a text s: mn and nm are the captures of
\* its two loose patterns, parsed is new Date(s)
parseDateCaptures(s, mn, nm, parsed) ==
    IF isoMatch(s)
    THEN NewDate(DigitPrefixVal(SubSeq(s, 1, 4), 0),
                 DigitPrefixVal(SubSeq(s, 6, 7), 0) - 1,
                 DigitPrefixVal(SubSeq(s, 9, 10), 0))
    ELSE IF mn # <<>> /\ MonthIndexOf(mn[1]) >= 0
    THEN NewDate(DigitPrefixVal(mn[3], 0), MonthIndexOf(mn[1]), DigitPrefixVal(mn[2], 0))
    ELSE IF nm # <<>> /\ nm[1] > 1000
    THEN NewDate(nm[1], nm[2] - 1, nm[3])
    ELSE IF nm # <<>> /\ nm[3] > 1000
    THEN NewDate(nm[3], nm[1] - 1, nm[2])
    ELSE IF parsed.valid THEN parsed ELSE Null

\* parseDateString: a Date object, or null
parseDateString(v) ==
    IF ~Truthy(v) \/ v.t # "string" THEN Null
    ELSE parseDateCaptures(v.s, monthNameMatch(v.s), numericMatch(v.s), DateFromString(v.s))

\* the year a day falls in
YearOfDay(day) ==
    LET a == 1970 + (day \div 366) - 1
        b == 1970 + (day \div 365) + 1
    IN  CHOOSE y \in (IF a < b THEN a ELSE b)..(IF a < b THEN b ELSE a) :
            DaysToYear(y) <= day /\ day < DaysToYear(y + 1)

\* a number in at least n digits
RECURSIVE Pad(_, _)
Pad(digits, n) == IF Len(digits) >= n THEN digits ELSE Pad(<<"0">> \o digits, n)

\* the month, from 1, of the day that is rest days into the year y
MonthOf(y, rest) ==
    CHOOSE k \in 1..12 :
        DaysToMonth(y, k) <= rest /\ rest < DaysToMonth(y, k) + DaysInMonth(y, k)

\* year, month and day of the month of the day that is rest days into y
CalendarIn(y, rest) ==
    [year |-> y, month |-> MonthOf(y, rest),
     date |-> rest - DaysToMonth(y, MonthOf(y, rest)) + 1]

CalendarInYear(y, day) == CalendarIn(y, day - DaysToYear(y))

CalendarOf(day) == CalendarInYear(YearOfDay(day), day)

isoText(cal) ==
    Pad(NumStr(cal.year), 4) \o <<"-">> \o Pad(NumStr(cal.month), 2)
    \o <<"-">> \o Pad(NumStr(cal.date), 2)

\* date.toISOString().split('T')[0]
isoDate(date) == isoText(CalendarOf(UTCDay(date)))

\* a word with its first letter in upper case
Capitalized(w) ==
    <<UpperLetters[CHOOSE i \in 1..Len(LowerLetters) : LowerLetters[i] = w[1]]>> \o Tail(w)

longText(cal) ==
    Capitalized(monthNames[cal.month]) \o <<" ">> \o NumStr(cal.date)
    \o <<",", " ">> \o NumStr(cal.year)

\* date.toLocaleDateString('en-US', {year: 'numeric', month: 'long', day: 'numeric'})
toLocaleDateString(date) == longText(CalendarOf(LocalDay(date)))

\* Number(value): <<n>> for a numeral, <<>> for NaN
NumberOf(v) ==
    LET s == Trim(String(v))
    IN  IF v.t \in {"string", "number"} /\ s # <<>> /\ \A i \in 1..Len(s) : IsDigit(s[i])
        THEN <<DigitPrefixVal(s, 0)>>
        ELSE <<>>

\* new Date(1899, 11, 30)
excelEpoch == NewDate(1899, 11, 30)

\* what a call ends with: the value returned, or the exception thrown
Returns(v) == [throws |-> "", value |-> v]
Throws(name) == [throws |-> name, value |-> Undefined]

\* testDate.getFullYear() of the serial number num between 1900 and 2100
IsSerialYear(num) ==
    /\ DaysToYear(1900) <= LocalDay(excelEpoch) + num
    /\ LocalDay(excelEpoch) + num < DaysToYear(2101)

\* Math.round(a / b) for b > 0
MathRound(a, b) == (2 * a + b) \div (2 * b)

\* the statements of convertToExcelDate after the serial number test: date is
\* what the parsing produced
ExcelDateOf(value, date) ==
    IF date.t = "null" THEN Throws("TypeError")      \* date.getTime() of null
    ELSE IF ~date.valid THEN Returns(value)
    ELSE Returns(Num(MathRound(date.time - excelEpoch.time, DayMinutes)))

\* date = new Date(value); if (isNaN(date.getTime())) date = parseDateString(value)
DateOrParsed(date, parsed) == IF date.valid THEN date ELSE parsed

\* the branches of convertToExcelDate: num is Number(value)
convertNumbered(value, num) ==
    IF ~Truthy(value) THEN Returns(Str(<<>>))
    ELSE IF num # <<>> /\ num[1] > 0 /\ num[1] < 1000000 /\ IsSerialYear(num[1])
    THEN Returns(Num(num[1]))
    ELSE IF value.t = "string"
    THEN ExcelDateOf(value, DateOrParsed(DateFromString(value.s), parseDateString(value)))
    ELSE ExcelDateOf(value, [t |-> "object", valid |-> TRUE,
                             time |-> num[1] \div 60000])

convertToExcelDate(value) == convertNumbered(value, NumberOf(value))

\* date.getFullYear() >= 1900 && date.getFullYear() <= 2100
IsDisplayYear(date) ==
    DaysToYear(1900) <= LocalDay(date) /\ LocalDay(date) < DaysToYear(2101)

\* new Date(excelEpoch.getTime() + num * 24 * 60 * 60 * 1000)
DateOfSerial(num) ==
    [t |-> "object", valid |-> TRUE, time |-> excelEpoch.time + num * DayMinutes]

\* the branches of formatDateValue on a non-blank value of a date column: num
\* is Number(value)
formatNumbered(value, num) ==
    IF num # <<>> /\ num[1] > 0 /\ num[1] < 1000000 /\ IsDisplayYear(DateOfSerial(num[1]))
    THEN toLocaleDateString(DateOfSerial(num[1]))
    ELSE stableValue(value)

\* formatDateValue: the text shown for the value of a column
formatDateValue(value, colName) ==
    IF isBlank(value) THEN <<>>
    ELSE IF colName # "Date" THEN stableValue(value)
    ELSE formatNumbered(value, NumberOf(value))

\* the text renderChat puts into the input of a metadata column of a row
MetaInputText(rawValue, displayValue) ==
    IF displayValue # <<>> /\ displayValue # stableValue(rawValue)
    THEN displayValue
    ELSE String(rawValue)

metaInputValue(r, c) ==
    IF c = "Date"
    THEN MetaInputText(CellOf(r, c), formatDateValue(CellOf(r, c), c))
    ELSE String(CellOf(r, c))

\* /date/i.test(columnName), on the column names of the model
IsDateCol(columnName) == columnName = "Date"

\* the value updateMetadataInRow stores for the text of the input of a column
StoredMetadata(columnName, value, parsedDate) ==
    IF IsDateCol(columnName) /\ parsedDate.t # "null"
    THEN IF parsedDate.valid
         THEN Returns(Str(isoDate(parsedDate)))
         ELSE Throws("RangeError")               \* toISOString() of an Invalid Date
    ELSE Returns(value)

updateMetadataInRow(columnName, value) ==
    StoredMetadata(columnName, value, parseDateString(value))

\* the row, or the exception, after updateMetadataInRow ended with out
MetadataStored(c, out) ==
    IF out.throws # ""
    THEN /\ uncaught' = out.throws
         /\ UNCHANGED allRows
    ELSE /\ allRows' = [allRows EXCEPT ![currentRow[1]] = Put(@, c, out.value)]
         /\ UNCHANGED uncaught

\* the blur handler of the metadata input of column c: updateMetadataInRow(c, text)
UpdateMetadata(c, text) ==
    /\ currentRow # NoSelection
    /\ c \in Range(identifierCols)
    /\ MetadataStored(c, updateMetadataInRow(c, Str(text)))
    /\ UNCHANGED <<timeZone, fileInput, row, dec, picklistVars, sortVars, chatForm, identifierCols, filterOptions, activeFilters,
                   filteredRows, activeIndex, nextId, addChatBtn, fetch, alertMsg, wsData,
                   currentRow>>

\* the cell downloadExcel computes for a column of a row
ExportCellOf(r, col) ==
    IF col = "Date" /\ Truthy(CellOf(r, col))
    THEN convertToExcelDate(CellOf(r, col))
    ELSE Returns(CellOf(r, col))

\* wsData of the revision that converts the Date column
ExportTableDates(rows) ==
    <<orderedColumns(rows)>>
    \o [i \in 1..Len(rows) |->
          [j \in 1..Len(orderedColumns(rows)) |->
              ExportCellOf(rows[i], orderedColumns(rows)[j]).value]]

\* some cell of the export makes convertToExcelDate throw
ExportThrows(rows) ==
    \E i \in 1..Len(rows) : \E col \in Range(orderedColumns(rows)) :
        ExportCellOf(rows[i], col).throws # ""

\* downloadExcel of the revision that converts the Date column
DownloadExcelDates ==
    /\ IF allRows = <<>>
       THEN /\ alertMsg' = "No data to download"
            /\ UNCHANGED <<wsData, uncaught>>
       ELSE IF ExportThrows(allRows)
       THEN /\ uncaught' = "TypeError"
            /\ UNCHANGED <<wsData, alertMsg>>
       ELSE /\ wsData' = ExportTableDates(allRows)
            /\ UNCHANGED <<alertMsg, uncaught>>
    /\ UNCHANGED <<timeZone, fileInput, row, dec, picklistVars, sortVars, chatForm, allRows, identifierCols, filterOptions,
                   activeFilters, filteredRows, activeIndex, nextId, addChatBtn, fetch,
                   currentRow>>

\* the texts typed into the Id input of the detail view; the field is edited
\* while the detail view shows the first row of allRows
IdTexts == {<<"9">>}

Next ==
    \/ \E sheet \in Sheets : LoadSheet(sheet)
    \/ \E col \in DOMAIN filterOptions :
          \E v \in filterOptions[col] \cup {<<>>} : FilterChange(col, v)
    \/ \E i \in 0..(Len(filteredRows) - 1) : ClickRow(i)
    \/ \E text \in IdTexts : currentRow = <<1>> /\ UpdateMetadata("Id", text)
    \/ AddChatSubmit
    \/ \E i \in 1..Len(fetch) : \E response \in Responses : FetchResponds(i, response)
    \/ \E i \in 1..Len(fetch) : AddChatResume(i)

Spec == Init /\ [][Next]_vars

-----------------------------------------------------------------------------
(* SpecDate: one-row sheets with a Date column, metadata edits of the date and
   exports *)

\* the texts a Date cell or a Date input holds
DateTexts ==
    {<<"2", "0", "2", "4", "-", "0", "1", "-", "1", "5">>,
     <<"M", "a", "y", " ", "1", ",", " ", "2", "0", "2", "4">>,
     <<"1", "/", "5", "/", "2", "0", "2", "4">>,
     <<"t", "b", "d">>,
     <<"n", "/", "a">>,
     <<"4", "5", "0", "0", "0">>,
     <<>>}

\* the values a Date cell of a sheet holds: a text, or a serial number
DateValues == {Str(text) : text \in DateTexts} \cup {Num(45000), Num(2)}

\* the time zones the browser runs in: UTC; one behind UTC that has kept its
\* offset since 1899 (America/New_York, 5:00 behind); one ahead of UTC whose
\* local time of 1899 was ahead of its standard time of today (Asia/Shanghai,
\* 8:05 then and 8:00 now)
TimeZones ==
    {UTC, [then |-> 0 - 300, now |-> 0 - 300], [then |-> 485, now |-> 480]}

InitDate ==
    /\ NoSheet
    /\ DecoderIdle
    /\ timeZone \in TimeZones
    /\ fileInput = NoFile

DateSheets ==
    {<<<<[col |-> "Id", val |-> Num(1)],
         [col |-> "Date", val |-> v],
         [col |-> "Priority", val |-> Str(<<"H">>)],
         [col |-> "Location Run", val |-> Str(<<"l">>)],
         [col |-> "User Email", val |-> Str(<<"u">>)],
         [col |-> "Project Name", val |-> Str(<<"p">>)],
         [col |-> "Q1", val |-> NonBlankValue("Q1")],
         [col |-> "R1", val |-> NonBlankValue("R1")]>>>> : v \in DateValues}

NextDate ==
    \/ \E sheet \in DateSheets : LoadSheet(sheet)
    \/ \E text \in DateTexts : UpdateMetadata("Date", text)
    \/ DownloadExcelDates

SpecDate == InitDate /\ [][NextDate]_vars

-----------------------------------------------------------------------------
(* SpecEdit: notes, expectations and metadata edited in the detail view, next
   to filtering, selection, export and remote ingestion *)

\* the texts typed into a note
NoteTexts == {<<>>, <<"n">>}

\* the values of the options of the expectation select: Not Set, Expected,
\* Unexpected
ExpectedOptions == {<<>>, <<"Y", "e", "s">>, <<"N", "o">>}

\* the texts typed into the Priority input of the detail view
PriorityTexts == {<<"L">>}

\* a note written to the column numbered like the exchange index
updateNoteInRow_SameNumber(r, exchangeIndex, noteText) ==
    Put(r, NCol(exchangeIndex), noteText)

\* updateNoteInRow: row[`N${exchangeIndex + 1}`] = noteValue
updateNoteInRow(r, exchangeIndex, noteText) ==
    Put(r, NCol(exchangeIndex + 1), noteText)

\* updateExpectedInRow: row[columnName] = expectedValue
updateExpectedInRow(r, exchangeIndex, expectedText) ==
    Put(r, IF exchangeIndex = 0 THEN "Expected" ELSE ExpectedUnderscoreCol(exchangeIndex),
        expectedText)

\* the exchange indexes of the assistant bubbles renderChat draws for a row
AssistantIndexes(r) ==
    {m.exchangeIndex : m \in {n \in Range(rowToMessages(r)) : n.role = "assistant"}}

\* the blur handler of the note of the assistant bubble of exchange i
UpdateNote(i, text) ==
    /\ currentRow # NoSelection
    /\ i \in AssistantIndexes(allRows[currentRow[1]])
    /\ allRows' = [allRows EXCEPT ![currentRow[1]] = updateNoteInRow(@, i, Str(text))]
    /\ UNCHANGED <<timeZone, fileInput, row, dec, picklistVars, sortVars, chatForm, uncaught, identifierCols,
                   filterOptions, activeFilters, filteredRows, activeIndex, nextId,
                   addChatBtn, fetch, alertMsg, wsData, currentRow>>

\* the change handler of the expectation select of the assistant bubble of
\* exchange i
UpdateExpected(i, text) ==
    /\ currentRow # NoSelection
    /\ i \in AssistantIndexes(allRows[currentRow[1]])
    /\ allRows' = [allRows EXCEPT ![currentRow[1]] = updateExpectedInRow(@, i, Str(text))]
    /\ UNCHANGED <<timeZone, fileInput, row, dec, picklistVars, sortVars, chatForm, uncaught, identifierCols,
                   filterOptions, activeFilters, filteredRows, activeIndex, nextId,
                   addChatBtn, fetch, alertMsg, wsData, currentRow>>

\* a row of a sheet with one exchange, followed by the cells of extra
EditRow(n, priority, extra) ==
    <<[col |-> "Id", val |-> Num(n)],
      [col |-> "Priority", val |-> Str(priority)],
      [col |-> "Location Run", val |-> Str(<<"l">>)],
      [col |-> "User Email", val |-> Str(<<"u">>)],
      [col |-> "Project Name", val |-> Str(<<"p">>)],
      [col |-> "Q1", val |-> Str(<<"q">>)],
      [col |-> "R1", val |-> Str(<<"r">>)]>> \o extra

\* the cells of a second exchange
SecondExchange ==
    <<[col |-> "Q2", val |-> Str(<<"q">>)], [col |-> "R2", val |-> Str(<<"s">>)]>>

\* the sheets offered: one row of two exchanges, one row that holds its
\* expectation in the fallback column Expected1, and two rows of different
\* priority
EditSheets ==
    {<<EditRow(1, <<"H">>, SecondExchange)>>,
     <<EditRow(1, <<"H">>, <<[col |-> "Expected1", val |-> Str(<<"N", "o">>)]>>)>>,
     <<EditRow(1, <<"H">>, <<>>), EditRow(2, <<"L">>, <<>>)>>}

NextEdit ==
    \/ \E sheet \in EditSheets : LoadSheet(sheet)
    \/ \E v \in {<<>>, <<"H">>, <<"L">>} : FilterChange("Priority", v)
    \/ \E i \in 0..(Len(filteredRows) - 1) : ClickRow(i)
    \/ \E i \in 0..(MaxPair - 1) : \E text \in NoteTexts : UpdateNote(i, text)
    \/ \E i \in 0..(MaxPair - 1) : \E text \in ExpectedOptions : UpdateExpected(i, text)
    \/ \E text \in PriorityTexts : UpdateMetadata("Priority", text)

SpecEdit == Init /\ [][NextEdit]_vars

-----------------------------------------------------------------------------
(* SpecFiles: workbooks selected in the file input and read asynchronously *)

\* the files the user selects
FileNames == {"a.xlsx", "b.xlsx", "c.xlsx"}

Sheet(name, rows) == [name |-> name, rows |-> rows]

\* XLSX.read of the bytes of a file: the sheets of the workbook, in order
WorkbookOf(f) ==
    IF f = "a.xlsx"
    THEN <<Sheet("S1", <<EditRow(1, <<"H">>, <<>>)>>),
           Sheet("S2", <<EditRow(2, <<"L">>, <<>>)>>)>>
    ELSE IF f = "b.xlsx"
    THEN <<Sheet("T1", <<EditRow(3, <<"H">>, <<>>), EditRow(4, <<"L">>, <<>>)>>)>>
    ELSE <<Sheet("S1", <<EditRow(5, <<"L">>, <<>>)>>)>>

\* wb.SheetNames
SheetNamesOf(f) == [i \in 1..Len(WorkbookOf(f)) |-> WorkbookOf(f)[i].name]

\* XLSX.utils.sheet_to_json(wb.Sheets[sheetName])
RowsOfSheet(f, sheetName) ==
    (CHOOSE sh \in Range(WorkbookOf(f)) : sh.name = sheetName).rows

\* the change handler of the file input up to its await
FileInputChange(f) ==
    /\ f \in FileNames
    /\ Len(fileInput.reading) < MaxInFlight
    /\ fileInput' = [fileInput EXCEPT !.file = <<f>>, !.reading = Append(@, f)]
    /\ UNCHANGED <<timeZone, row, dec, picklistVars, sortVars, chatForm, uncaught, allRows,
                   identifierCols, filterOptions, activeFilters, filteredRows, activeIndex,
                   nextId, addChatBtn, fetch, alertMsg, wsData, currentRow>>

\* the change handler of the file input from its await on: the i-th read ends
FileInputResume(i) ==
    /\ i \in 1..Len(fileInput.reading)
    /\ fileInput' = [fileInput EXCEPT
                       !.reading = RemoveAt(@, i),
                       !.sheetNames = SheetNamesOf(fileInput.reading[i]),
                       !.currentSheet = <<SheetNamesOf(fileInput.reading[i])[1]>>,
                       !.wb = <<fileInput.reading[i]>>]
    /\ loadSheet(RowsOfSheet(fileInput.reading[i], SheetNamesOf(fileInput.reading[i])[1]))
    /\ UNCHANGED <<timeZone, row, dec, picklistVars, sortVars, chatForm, uncaught,
                   addChatBtn, fetch, alertMsg, wsData>>

\* sheetSelect.onchange, as the last read that ended has set it
SheetSelectChange(name) ==
    /\ name \in Range(fileInput.sheetNames)
    /\ fileInput' = [fileInput EXCEPT !.currentSheet = <<name>>]
    /\ loadSheet(RowsOfSheet(fileInput.wb[1], name))
    /\ UNCHANGED <<timeZone, row, dec, picklistVars, sortVars, chatForm, uncaught,
                   addChatBtn, fetch, alertMsg, wsData>>

NextFiles ==
    \/ \E f \in FileNames : FileInputChange(f)
    \/ \E i \in 1..Len(fileInput.reading) : FileInputResume(i)
    \/ \E name \in Range(fileInput.sheetNames) : SheetSelectChange(name)
    \/ \E v \in {<<>>, <<"H">>, <<"L">>} : FilterChange("Priority", v)
    \/ \E i \in 0..(Len(filteredRows) - 1) : ClickRow(i)

SpecFiles == Init /\ [][NextFiles]_vars

-----------------------------------------------------------------------------
(* SpecSort: the revision with multi-select filters and a sortable row list *)

\* detectIdentifierCols of this revision: everything but Q{k} and R{k}
detectIdentifierColsSort(headers) ==
    SelectSeq(headers, LAMBDA h : ~MatchesQ(h) /\ ~MatchesR(h))

\* activeFilters after buildFilters: every value of every list selected, and
\* no list for a column without values
buildFiltersSort(rows, idCols) ==
    [c \in {col \in Range(idCols) : DistinctValues(rows, col) # {}}
        |-> DistinctValues(rows, c)]

\* the body of the callback of rows.filter in applyFilters
RowPassesSort(r, idCols, af) ==
    \A col \in Range(idCols) :
        LET v == stableValue(Get(r, col))
        IN  (col \in DOMAIN af /\ af[col] # {}) => (v = <<>> \/ v \in af[col])

applyFiltersSort(rows, idCols, af) ==
    SelectSeq([i \in 1..Len(rows) |-> i], LAMBDA i : RowPassesSort(rows[i], idCols, af))

IsDigits(s) == s # <<>> /\ \A i \in 1..Len(s) : s[i] \in Range(Digits)

\* the place of a character in the collation order: digits, then letters
\* whatever their case
CharRank(c) ==
    IF c \in Range(Digits) THEN CHOOSE i \in 1..Len(Digits) : Digits[i] = c
    ELSE IF LowerChar(c) \in Range(LowerLetters)
    THEN Len(Digits) + (CHOOSE i \in 1..Len(LowerLetters) : LowerLetters[i] = LowerChar(c))
    ELSE 0

Sign(n) == IF n < 0 THEN -1 ELSE IF n > 0 THEN 1 ELSE 0

\* a.localeCompare(b, undefined, { numeric: true }) for texts of digits and
\* letters: two numbers compare by value, other texts letter by letter, a
\* lower-case letter before its upper-case one when nothing else differs
localeCompare(a, b) ==
    IF IsDigits(a) /\ IsDigits(b)
    THEN Sign(parseInt(Str(a))[1] - parseInt(Str(b))[1])
    ELSE LET m == IF Len(a) < Len(b) THEN Len(a) ELSE Len(b)
             differ == {i \in 1..m : CharRank(a[i]) # CharRank(b[i])}
             cased == {i \in 1..m : a[i] # b[i]}
             first(S) == CHOOSE i \in S : \A j \in S : i <= j
         IN  IF differ # {}
             THEN Sign(CharRank(a[first(differ)]) - CharRank(b[first(differ)]))
             ELSE IF Len(a) # Len(b) THEN Sign(Len(a) - Len(b))
             ELSE IF cased # {}
             THEN (IF a[first(cased)] \in Range(LowerLetters) THEN -1 ELSE 1)
             ELSE 0

\* applySort: a stable sort of the filtered rows by the sort column
applySort(rows, idxs, sc, asc) ==
    IF sc = <<>> THEN idxs
    ELSE LET n == Len(idxs)
             key(p) == stableValue(Get(rows[idxs[p]], sc[1]))
             cmp(p, q) == IF asc THEN localeCompare(key(p), key(q))
                          ELSE 0 - localeCompare(key(p), key(q))
             before(p, q) == cmp(p, q) < 0 \/ (cmp(p, q) = 0 /\ p < q)
             pos(p) == Cardinality({q \in 1..n : before(q, p)}) + 1
         IN  [k \in 1..n |-> idxs[CHOOSE p \in 1..n : pos(p) = k]]

\* the row renderChat shows once renderRowList(rows) has run with activeIndex
\* ai: rows[0] when the autoselect fires, else the row shown before
renderChatKeeping(rows, ai, shown) ==
    IF rows # <<>> /\ ai = NoSelection THEN <<rows[1]>> ELSE shown

\* loadSheet of this revision; sortAsc keeps its value
LoadSheetSort(sheet) ==
    /\ allRows' = sheet
    /\ identifierCols' = detectIdentifierColsSort(Headers(sheet))
    /\ sortCol' = IF identifierCols' # <<>> THEN <<identifierCols'[1]>> ELSE <<>>
    /\ filterOptions' = buildFiltersSort(sheet, identifierCols')
    /\ activeFilters' = buildFiltersSort(sheet, identifierCols')
    /\ filteredRows' = applySort(sheet, applyFiltersSort(sheet, identifierCols',
                                                         activeFilters'),
                                 sortCol', sortAsc)
    /\ activeIndex' = renderRowList(filteredRows', NoSelection)
    /\ currentRow' = renderChatKeeping(filteredRows', NoSelection, NoSelection)
    /\ UNCHANGED <<timeZone, fileInput, row, dec, picklistVars, sortAsc, chatForm, uncaught, nextId, addChatBtn,
                   fetch, alertMsg, wsData>>

\* the change handler of the list of col, chosen being its selected options
FilterChangeSort(col, chosen) ==
    /\ col \in DOMAIN filterOptions
    /\ chosen \subseteq filterOptions[col]
    /\ activeFilters' = [activeFilters EXCEPT ![col] = chosen]
    /\ filteredRows' = applySort(allRows, applyFiltersSort(allRows, identifierCols,
                                                           activeFilters'),
                                 sortCol, sortAsc)
    /\ activeIndex' = renderRowList(filteredRows', NoSelection)
    /\ currentRow' = renderChatKeeping(filteredRows', NoSelection, currentRow)
    /\ UNCHANGED <<timeZone, fileInput, row, dec, picklistVars, sortVars, chatForm, uncaught, allRows,
                   identifierCols, filterOptions, nextId, addChatBtn, fetch, alertMsg,
                   wsData>>

\* clearFiltersBtn.onclick: select everything in every list
ClearFiltersSort ==
    /\ identifierCols # <<>>
    /\ activeFilters' = [c \in Range(identifierCols) |-> DistinctValues(allRows, c)]
    /\ filteredRows' = applySort(allRows, applyFiltersSort(allRows, identifierCols,
                                                           activeFilters'),
                                 sortCol, sortAsc)
    /\ activeIndex' = renderRowList(filteredRows', NoSelection)
    /\ currentRow' = renderChatKeeping(filteredRows', NoSelection, currentRow)
    /\ UNCHANGED <<timeZone, fileInput, row, dec, picklistVars, sortVars, chatForm, uncaught, allRows,
                   identifierCols, filterOptions, nextId, addChatBtn, fetch, alertMsg,
                   wsData>>

\* applyAll(true), which the two sort controls call: activeIndex is kept
applyAllKeepSelection(sc, asc) ==
    /\ filteredRows' = applySort(allRows, applyFiltersSort(allRows, identifierCols,
                                                           activeFilters),
                                 sc, asc)
    /\ activeIndex' = renderRowList(filteredRows', activeIndex)
    /\ currentRow' = renderChatKeeping(filteredRows', activeIndex, currentRow)

\* sortSelect.onchange
SortSelectChange(col) ==
    /\ sortCol # <<>>
    /\ col \in Range(identifierCols)
    /\ <<col>> # sortCol
    /\ sortCol' = <<col>>
    /\ applyAllKeepSelection(sortCol', sortAsc)
    /\ UNCHANGED <<timeZone, fileInput, row, dec, picklistVars, sortAsc, chatForm, uncaught, allRows,
                   identifierCols, filterOptions, activeFilters, nextId, addChatBtn, fetch,
                   alertMsg, wsData>>

\* sortDirBtn.onclick
SortDirClick ==
    /\ sortCol # <<>>
    /\ sortAsc' = ~sortAsc
    /\ applyAllKeepSelection(sortCol, sortAsc')
    /\ UNCHANGED <<timeZone, fileInput, row, dec, picklistVars, sortCol, chatForm, uncaught, allRows,
                   identifierCols, filterOptions, activeFilters, nextId, addChatBtn, fetch,
                   alertMsg, wsData>>

\* the cell of column c in the n-th row of a sheet of this revision
SortSheetCell(c, n, numbers, priorities) ==
    [col |-> c,
     val |-> IF c = "Number" THEN Num(numbers[((n - 1) % Len(numbers)) + 1])
             ELSE IF c = "Priority" THEN Str(priorities[((n - 1) % Len(priorities)) + 1])
             ELSE NonBlankValue(c)]

\* sheets of up to MaxRows rows whose numbers are not in ascending order and
\* whose priorities are all equal or alternate
SheetsSort ==
    UNION {
        {[n \in 1..len |->
            [j \in 1..Len(h) |-> SortSheetCell(h[j], n, <<10, 2, 7, 1>>, prio)]] :
           prio \in {<<<<"H">>>>, <<<<"H">>, <<"l">>>>}} :
        h \in {<<"Number", "Priority", "Q1", "R1">>, <<"Q1", "R1">>}, len \in 0..MaxRows}

NextSort ==
    \/ \E sheet \in SheetsSort : LoadSheetSort(sheet)
    \/ \E col \in DOMAIN filterOptions :
          \E chosen \in SUBSET filterOptions[col] : FilterChangeSort(col, chosen)
    \/ ClearFiltersSort
    \/ \E col \in Range(identifierCols) : SortSelectChange(col)
    \/ SortDirClick
    \/ \E i \in 0..(Len(filteredRows) - 1) : ClickRow(i)

SpecSort == Init /\ [][NextSort]_vars

-----------------------------------------------------------------------------
(* SpecDropdowns: the revision whose Add Chat form picks the project and the
   chat from dropdowns filled from the remote service; the environment is
   configured and no sheet is loaded *)

Chat(id, name) == [chat_id |-> id, name |-> name]

\* availableProjects after the environment was configured
availableProjects ==
    <<[project_id |-> <<"p", "1">>, name |-> <<"P">>],
      [project_id |-> <<"p", "2">>, name |-> <<"Q">>]>>

\* the chats the service lists for a project
ChatsOf(projectId) ==
    IF projectId = <<"p", "1">>
    THEN <<Chat(<<"c", "1">>, <<"A", "b">>), Chat(<<"c", "4">>, <<>>)>>
    ELSE <<Chat(<<"c", "3">>, <<"z">>)>>

\* the texts typed into the chat search
SearchTexts == {<<>>, <<" ", "A">>}

\* String.prototype.includes
includes(s, term) ==
    \E i \in 1..(Len(s) - Len(term) + 1) : SubSeq(s, i, i + Len(term) - 1) = term

ChatIds(chats) == [i \in 1..Len(chats) |-> chats[i].chat_id]

\* populateChatDropdown: the options are rebuilt, which leaves the first
\* option ("Select a chat...", value "") selected, and the dropdown is enabled
populateChatDropdown(form, chats) ==
    [form EXCEPT !.filteredChats = chats, !.chatOptions = ChatIds(chats),
                 !.chatId = <<>>, !.chatSelectDisabled = FALSE]

\* the chat dropdown reduced to one placeholder option and disabled, the
\* search disabled and emptied
chatSelectPlaceholder(form) ==
    [form EXCEPT !.chatOptions = <<>>, !.chatId = <<>>, !.chatSelectDisabled = TRUE,
                 !.chatSearchDisabled = TRUE, !.chatSearch = <<>>]

\* the change handler of the project dropdown, up to its await
ProjectIdChange(projectId) ==
    /\ projectId # chatForm.projectId
    /\ IF projectId = <<>>
       THEN /\ chatForm' = [chatSelectPlaceholder(chatForm) EXCEPT
                               !.projectId = projectId,
                               !.availableChats = <<>>, !.filteredChats = <<>>]
            /\ addChatBtn' = "disabled"
       ELSE /\ Len(chatForm.chatsFetch) < MaxInFlight
            /\ chatForm' = [chatSelectPlaceholder(chatForm) EXCEPT
                               !.projectId = projectId,
                               !.chatsFetch = Append(@, [projectId |-> projectId])]
            /\ UNCHANGED addChatBtn
    /\ UNCHANGED <<timeZone, fileInput, row, dec, picklistVars, sortVars, uncaught, allRows, identifierCols, filterOptions,
                   activeFilters, filteredRows, activeIndex, nextId, fetch, alertMsg,
                   wsData, currentRow>>

\* chats.filter(c => c.chat_id && c.name)
UsableChats(chats) == SelectSeq(chats, LAMBDA c : c.chat_id # <<>> /\ c.name # <<>>)

\* what a chat-list fetch ends with
ChatsStatuses == {"ok", "http_error", "network_error"}

\* the change handler of the project dropdown, from its await on: the i-th
\* chat-list fetch ends with the given status and the handler goes on
ProjectIdChangeResume(i, status) ==
    /\ i \in 1..Len(chatForm.chatsFetch)
    /\ status \in ChatsStatuses
    /\ LET chats == UsableChats(ChatsOf(chatForm.chatsFetch[i].projectId))
           rest == [chatForm EXCEPT !.chatsFetch = RemoveAt(@, i)]
       IN  IF status = "ok"
           THEN /\ chatForm' = [populateChatDropdown(rest, chats) EXCEPT
                                   !.availableChats = chats,
                                   !.chatSearchDisabled = FALSE]
                /\ addChatBtn' = IF chats # <<>> THEN "enabled" ELSE addChatBtn
                /\ UNCHANGED alertMsg
           ELSE /\ alertMsg' = "Error fetching chats"
                /\ chatForm' = [chatSelectPlaceholder(rest) EXCEPT
                                   !.chatSearch = rest.chatSearch,
                                   !.availableChats = <<>>, !.filteredChats = <<>>]
                /\ addChatBtn' = "disabled"
    /\ UNCHANGED <<timeZone, fileInput, row, dec, picklistVars, sortVars, uncaught, allRows, identifierCols, filterOptions,
                   activeFilters, filteredRows, activeIndex, nextId, fetch, wsData,
                   currentRow>>

\* the input handler of the chat search
ChatSearchInput(text) ==
    /\ ~chatForm.chatSearchDisabled
    /\ text # chatForm.chatSearch
    /\ LET searchTerm == Trim(toLowerCase(text))
           found == IF searchTerm = <<>> THEN chatForm.availableChats
                    ELSE SelectSeq(chatForm.availableChats,
                                   LAMBDA c : includes(toLowerCase(c.name), searchTerm))
           form == populateChatDropdown([chatForm EXCEPT !.chatSearch = text], found)
           selectedChatId == form.chatId
       IN  /\ chatForm' = form
           /\ addChatBtn' = IF selectedChatId # <<>>
                               /\ selectedChatId \notin Range(ChatIds(found))
                            THEN "disabled" ELSE addChatBtn
    /\ UNCHANGED <<timeZone, fileInput, row, dec, picklistVars, sortVars, uncaught, allRows, identifierCols, filterOptions,
                   activeFilters, filteredRows, activeIndex, nextId, fetch, alertMsg,
                   wsData, currentRow>>

\* the change handler of the chat dropdown
ChatIdChange(chatId) ==
    /\ ~chatForm.chatSelectDisabled
    /\ chatId \in Range(chatForm.chatOptions) \cup {<<>>}
    /\ chatId # chatForm.chatId
    /\ chatForm' = [chatForm EXCEPT !.chatId = chatId]
    /\ addChatBtn' = IF chatId = <<>> THEN "disabled" ELSE "enabled"
    /\ UNCHANGED <<timeZone, fileInput, row, dec, picklistVars, sortVars, uncaught, allRows, identifierCols, filterOptions,
                   activeFilters, filteredRows, activeIndex, nextId, fetch, alertMsg,
                   wsData, currentRow>>

\* availableProjects.find(p => p.project_id === projectId): its name, or ""
projectNameOf(projectId) ==
    LET hits == {i \in 1..Len(availableProjects) :
                    Str(availableProjects[i].project_id) = projectId}
    IN  IF hits = {} THEN Str(<<>>)
        ELSE Str(availableProjects[CHOOSE i \in hits : \A j \in hits : i <= j].name)

\* today.toISOString().split('T')[0], read from the clock
isoToday == Str(<<"2", "0", "2", "4", "-", "0", "5", "-", "0", "1">>)

\* exchangesToRow of this revision: the project's name and an ISO date
exchangesToRowNamed(exchanges, location, userEmail, projectId, chatId, projectName, id) ==
    Put(Put(exchangesToRow(exchanges, location, userEmail, projectId, chatId, id),
            "Project Name", projectName),
        "Date", isoToday)

\* the submit handler of the Add Chat form, up to its await
AddChatSubmitDropdowns ==
    /\ addChatBtn = "enabled"
    /\ Len(fetch) < MaxInFlight
    /\ Len(allRows) + Len(fetch) < MaxRows
    /\ addChatBtn' = "disabled"
    /\ fetch' = Append(fetch, [status |-> "inflight", location |-> FormLocation,
                               userEmail |-> FormUserEmail,
                               projectId |-> Str(chatForm.projectId),
                               chatId |-> Str(chatForm.chatId), exchanges |-> <<>>])
    /\ UNCHANGED <<timeZone, fileInput, row, dec, picklistVars, sortVars, chatForm, uncaught, allRows, identifierCols, filterOptions,
                   activeFilters, filteredRows, activeIndex, nextId, alertMsg, wsData,
                   currentRow>>

\* what an exchanges fetch of this revision ends with
ResponsesDropdowns ==
    {[status |-> "ok",
      exchanges |-> <<Exchange(Str(<<"h", "i">>), Str(<<"y", "o">>), Num(5))>>],
     [status |-> "http_error", exchanges |-> <<>>],
     [status |-> "network_error", exchanges |-> <<>>]}

\* the submit handler of the Add Chat form, from its await on: the i-th
\* exchanges fetch ends with the given response and the handler goes on
AddChatResumeDropdowns(i, response) ==
    /\ i \in 1..Len(fetch)
    /\ response \in ResponsesDropdowns
    /\ LET f == [fetch[i] EXCEPT !.status = response.status,
                                 !.exchanges = response.exchanges]
       IN  /\ alertMsg' = AlertAfterAddChat(f)
           /\ IF FetchThrows(f)
              THEN UNCHANGED <<allRows, nextId, identifierCols, filterOptions,
                               activeFilters, filteredRows, activeIndex, currentRow,
                               chatForm>>
              ELSE /\ allRows' = Append(allRows,
                                    exchangesToRowNamed(f.exchanges, f.location,
                                                        f.userEmail, f.projectId, f.chatId,
                                                        projectNameOf(f.projectId), nextId))
                   /\ nextId' = nextId + 1
                   /\ filterOptions' = buildFilterOptions(allRows')
                   /\ activeFilters' = buildFilters(allRows')
                   /\ filteredRows' = applyFilters(allRows', activeFilters')
                   /\ activeIndex' = <<Len(filteredRows') - 1>>
                   /\ currentRow' = <<Len(allRows')>>
                   /\ chatForm' = populateChatDropdown([chatForm EXCEPT !.chatSearch = <<>>],
                                                       chatForm.availableChats)
                   /\ UNCHANGED identifierCols
    /\ addChatBtn' = "enabled"
    /\ fetch' = RemoveAt(fetch, i)
    /\ UNCHANGED <<timeZone, fileInput, row, dec, picklistVars, sortVars, uncaught, wsData>>

InitDropdowns ==
    /\ DecoderIdle
    /\ allRows = <<>>
    /\ identifierCols = <<>>
    /\ filterOptions = NoFilters
    /\ activeFilters = NoFilters
    /\ filteredRows = <<>>
    /\ activeIndex = NoSelection
    /\ nextId = 1
    /\ addChatBtn = "disabled"
    /\ fetch = <<>>
    /\ alertMsg = ""
    /\ wsData = <<>>
    /\ currentRow = NoSelection
    /\ uncaught = ""
    /\ chatForm = NoChatForm
    /\ PicklistIdle
    /\ SortIdle
    /\ timeZone = UTC
    /\ fileInput = NoFile

NextDropdowns ==
    \/ \E i \in 1..Len(availableProjects) : ProjectIdChange(availableProjects[i].project_id)
    \/ ProjectIdChange(<<>>)
    \/ \E i \in 1..Len(chatForm.chatsFetch) :
          \E status \in ChatsStatuses : ProjectIdChangeResume(i, status)
    \/ \E text \in SearchTexts : ChatSearchInput(text)
    \/ \E chatId \in Range(chatForm.chatOptions) \cup {<<>>} : ChatIdChange(chatId)
    \/ AddChatSubmitDropdowns
    \/ \E i \in 1..Len(fetch) :
          \E response \in ResponsesDropdowns : AddChatResumeDropdowns(i, response)

SpecDropdowns == InitDropdowns /\ [][NextDropdowns]_vars

-----------------------------------------------------------------------------
(* SpecProjects: the project picklist page, which keeps {name, description}
   records in memory and under one key of local storage *)

\* most projects the picklist grows to
MaxProjects == 3

Project(name, description) == [name |-> name, description |-> description]

\* the texts typed into the name and the description inputs
NamesTyped == {<<"a">>, <<"A", " ">>, <<" ", "b">>, <<"B">>, <<"c">>, <<"D">>}
DescriptionsTyped == {<<>>, <<"d", " ">>}

\* p.name.toLowerCase() === newProject.name.toLowerCase() for no two entries
NoTwoNamesAlike(list) ==
    \A i, j \in 1..Len(list) :
        i # j => toLowerCase(list[i].name) # toLowerCase(list[j].name)

NamesTrimmed(list) == \A i \in 1..Len(list) : Trim(list[i].name) = list[i].name

\* what local storage holds when the page loads: nothing, or the JSON text of
\* a list an earlier visit stored
StoredAtStart ==
    {<<>>,
     <<<<>>>>,
     <<<<Project(<<"A">>, <<>>)>>>>,
     <<<<Project(<<"b">>, <<"d">>), Project(<<"C">>, <<>>)>>>>}

\* JSON.parse(localStorage.getItem('projects')) || []
projectsOf(stored) == IF stored = <<>> THEN <<>> ELSE stored[1]

\* populateDropdown: the placeholder option, then one option per project
populateDropdown(list) == <<<<>>>> \o [i \in 1..Len(list) |-> list[i].name]

\* the record built from the inputs as typed
newProjectOf_Untrimmed(name, description) == Project(name, description)

\* the record addProject builds from its arguments
newProjectOf(name, description) == Project(Trim(name), Trim(description))

\* a comparison that tells upper case from lower case
nameExists_CaseSensitive(list, newProject) ==
    \E i \in 1..Len(list) : list[i].name = newProject.name

\* projects.some(p => p.name.toLowerCase() === newProject.name.toLowerCase())
nameExists(list, newProject) ==
    \E i \in 1..Len(list) : toLowerCase(list[i].name) = toLowerCase(newProject.name)

\* the submit handler of the Add Project form, addProject included
AddProjectSubmit(name, description) ==
    /\ LET newProject == newProjectOf(name, description)
       IN  IF nameExists(projects, newProject)
           THEN /\ alertMsg' = "A project with this name already exists!"
                /\ addProjectForm' = [newProjectName |-> name,
                                      projectDescription |-> description]
                /\ UNCHANGED <<projects, localStorage, projectNameSelect>>
           ELSE /\ Len(projects) < MaxProjects
                /\ projects' = Append(projects, newProject)
                /\ localStorage' = <<projects'>>
                /\ projectNameSelect' = populateDropdown(projects')
                /\ addProjectForm' = EmptyProjectForm
                /\ UNCHANGED alertMsg
    /\ UNCHANGED <<timeZone, fileInput, row, dec, sortVars, chatForm, uncaught, allRows, identifierCols, filterOptions,
                   activeFilters, filteredRows, activeIndex, nextId, addChatBtn, fetch,
                   wsData, currentRow>>

InitProjects ==
    /\ DecoderIdle
    /\ allRows = <<>>
    /\ identifierCols = <<>>
    /\ filterOptions = NoFilters
    /\ activeFilters = NoFilters
    /\ filteredRows = <<>>
    /\ activeIndex = NoSelection
    /\ nextId = 1
    /\ addChatBtn = "enabled"
    /\ fetch = <<>>
    /\ alertMsg = ""
    /\ wsData = <<>>
    /\ currentRow = NoSelection
    /\ uncaught = ""
    /\ chatForm = NoChatForm
    /\ localStorage \in StoredAtStart
    /\ projects = projectsOf(localStorage)
    /\ projectNameSelect = populateDropdown(projects)
    /\ addProjectForm = EmptyProjectForm
    /\ SortIdle
    /\ timeZone = UTC
    /\ fileInput = NoFile

NextProjects ==
    \E name \in NamesTyped : \E description \in DescriptionsTyped :
        AddProjectSubmit(name, description)

SpecProjects == InitProjects /\ [][NextProjects]_vars

-----------------------------------------------------------------------------
(* SpecDecode: rowToMessages run one loop iteration at a time *)

InitDecode ==
    /\ IsRowOver(row, DecodeCols, MaxKeys)
    /\ dec = DecodeStart
    /\ NoSheet
    /\ timeZone = UTC
    /\ fileInput = NoFile

RowToMessagesIter ==
    /\ ~dec.done
    /\ dec' = DecodeIter(row, dec)
    /\ UNCHANGED <<row, appVars>>

NextDecode == RowToMessagesIter

SpecDecode == InitDecode /\ [][NextDecode]_vars

\* the loop is not interrupted: it runs to its break
SpecDecodeFair == SpecDecode /\ WF_vars(RowToMessagesIter)

-----------------------------------------------------------------------------
(* SpecExport: downloadExcel on a one-row sheet *)

ExportCols == <<"Id", "App">> \o DecodeCols

Reverse(q) == [i \in 1..Len(q) |-> q[Len(q) + 1 - i]]

\* the download button's click handler
DownloadExcel ==
    /\ IF allRows = <<>>
       THEN /\ alertMsg' = "No data to download"
            /\ UNCHANGED wsData
       ELSE /\ wsData' = ExportTable(allRows)
            /\ UNCHANGED alertMsg
    /\ UNCHANGED <<timeZone, fileInput, row, dec, picklistVars, sortVars, chatForm, uncaught, allRows, identifierCols, filterOptions,
                   activeFilters, filteredRows, activeIndex, nextId, addChatBtn, fetch,
                   currentRow>>

InitExport ==
    /\ \E m \in 0..MaxKeys :
          \E idx \in [1..m -> 1..Len(ExportCols)] :
              /\ Ascending(idx)
              /\ \E nb \in [1..m -> BOOLEAN] :
                    \E reversed \in BOOLEAN :
                        allRows = <<IF reversed
                                    THEN Reverse(RowOf(ExportCols, idx, nb))
                                    ELSE RowOf(ExportCols, idx, nb)>>
    /\ ViewIdle
    /\ DecoderIdle
    /\ timeZone = UTC
    /\ fileInput = NoFile

NextExport == DownloadExcel

SpecExport == InitExport /\ [][NextExport]_vars

-----------------------------------------------------------------------------
(* SpecRows: every operation on the rows in memory - loading, filtering,
   selection, the three kinds of edit, export and remote ingestion *)

RowSheets == {<<EditRow(1, <<"H">>, <<>>)>>}

\* what a fetch ends with: one list of exchanges, or a non-2xx status
RowResponses ==
    {[status |-> "ok",
      exchanges |-> <<Exchange(Str(<<"b">>), Undefined, Num(7)),
                      Exchange(Str(<<"a">>), Str(<<"r">>), Num(3))>>],
     [status |-> "http_error", exchanges |-> <<>>]}

NextRows ==
    \/ \E sheet \in RowSheets : LoadSheet(sheet)
    \/ \E v \in {<<>>, <<"H">>} : FilterChange("Priority", v)
    \/ \E i \in 0..(Len(filteredRows) - 1) : ClickRow(i)
    \/ UpdateNote(0, <<"n">>)
    \/ UpdateExpected(0, <<"Y", "e", "s">>)
    \/ \E text \in PriorityTexts : UpdateMetadata("Priority", text)
    \/ DownloadExcel
    \/ AddChatSubmit
    \/ \E i \in 1..Len(fetch) : \E response \in RowResponses : FetchResponds(i, response)
    \/ \E i \in 1..Len(fetch) : AddChatResume(i)

SpecRows == Init /\ [][NextRows]_vars

-----------------------------------------------------------------------------
(* Properties of the export *)

\* the record the exported table holds for row i, read back by header name
ExportedRecord(ws, i) ==
    [j \in 1..Len(ws[1]) |-> [col |-> ws[1][j], val |-> ws[i + 1][j]]]

\* C1: decoding a row, re-encoding it into the export columns and decoding the
\* exported record again yields the same turn sequence.
C1_RoundTrip ==
    wsData # <<>> =>
        \A i \in 1..Len(allRows) :
            rowToMessages(ExportedRecord(wsData, i)) = rowToMessages(allRows[i])

\* the columns of pair k: Q{k}, R{k}, N{k} and Expected (k = 1) or Expected_{k-1}
PairCols(k) == {QCol(k), RCol(k), NCol(k), PairExpectedCol(k)}

PositionsOf(header, cols) == {j \in 1..Len(header) : header[j] \in cols}

\* C8: in the exported header the columns of each pair are adjacent and the
\* pairs are in ascending order, whichever pair columns the data holds.
C8_PairsAdjacent ==
    wsData # <<>> =>
        LET header == wsData[1]
        IN  /\ \A k \in Pairs :
                  \A a, b \in PositionsOf(header, PairCols(k)) :
                      \A j \in a..b : header[j] \in PairCols(k)
            /\ \A k, h \in Pairs :
                  k < h =>
                     \A a \in PositionsOf(header, PairCols(k)) :
                        \A b \in PositionsOf(header, PairCols(h)) : a < b

\* C9: every key of a row is in the exported header exactly once, and the header
\* starts with the ten standard columns.
C9_HeaderIsFullColumnSet ==
    wsData # <<>> =>
        LET header == wsData[1]
        IN  /\ SubSeq(header, 1, Len(standardCols)) = standardCols
            /\ \A i \in 1..Len(allRows) :
                  \A c \in Keys(allRows[i]) :
                      Cardinality(PositionsOf(header, {c})) = 1

-----------------------------------------------------------------------------
(* Properties of the decoder *)

\* the least index at which pairs k and k+1 are both fully blank
FirstStop(r) ==
    CHOOSE k \in 1..(MaxPair + 1) :
        /\ PairBlank(r, k) /\ PairBlank(r, k + 1)
        /\ \A j \in 1..(k - 1) : ~(PairBlank(r, j) /\ PairBlank(r, j + 1))

\* the number of non-blank Q/R cells of the pairs below index k
NonBlankBelow(r, k) ==
    Cardinality({c \in {QCol(j) : j \in 1..(k - 1)} \cup {RCol(j) : j \in 1..(k - 1)} :
                   ~isBlank(Get(r, c))})

NonBlankQR(r) ==
    {c \in {QCol(j) : j \in Pairs} \cup {RCol(j) : j \in Pairs} : ~isBlank(Get(r, c))}

\* s occurs in t as a block of adjacent elements
Occurs(s, t) ==
    \E i \in 0..(Len(t) - Len(s)) : SubSeq(t, i + 1, i + Len(s)) = s

\* C2: rowToMessages terminates on every row, and it stops at the smallest k
\* for which Q{k}, R{k}, Q{k+1}, R{k+1} are all blank: the turns are those of
\* the non-blank Q/R cells below that k and no column above it contributes one
\* (a row with only Q1/R1 populated yields exactly one exchange).
C2_StopsAtFirstBlankPairs ==
    /\ <>(dec.done)
    /\ [](dec.done =>
            /\ dec.k = FirstStop(row)
            /\ Len(dec.msgs) = NonBlankBelow(row, dec.k)
            /\ \A i \in 1..Len(dec.msgs) :
                 dec.msgs[i].role = "assistant" => dec.msgs[i].exchangeIndex < dec.k - 1
            /\ (NonBlankQR(row) = {QCol(1), RCol(1)} =>
                  /\ Len(dec.msgs) = 2
                  /\ dec.msgs[1].role = "user"
                  /\ dec.msgs[2].role = "assistant"))

\* the decoder has stopped below a pair that holds a non-blank cell
C2_Witness ==
    /\ dec.done
    /\ \E j \in Pairs : j > dec.k /\ ~PairBlank(row, j)

NonBlankExpected(r) ==
    {c \in {PairExpectedCol(j) : j \in Pairs} \cup {ExpectedKCol(j) : j \in Pairs} :
       ~isBlank(Get(r, c))}

\* C4: a row whose only non-blank Q/R columns are Q1 and R1 and which has no
\* non-blank Expected column decodes to exactly two turns: a user turn with
\* text Q1, then an assistant turn with text R1 and expectation null.
C4_SingleExchange ==
    (dec.done /\ NonBlankQR(row) = {QCol(1), RCol(1)} /\ NonBlankExpected(row) = {}) =>
       /\ Len(dec.msgs) = 2
       /\ dec.msgs[1].role = "user"
       /\ dec.msgs[1].text = Get(row, QCol(1)).s
       /\ dec.msgs[2].role = "assistant"
       /\ dec.msgs[2].text = Get(row, RCol(1)).s
       /\ dec.msgs[2].expected = Null

\* the decoding of such a row, with a blank Expected cell present
C4_Witness ==
    /\ dec.done
    /\ NonBlankQR(row) = {QCol(1), RCol(1)}
    /\ NonBlankExpected(row) = {}
    /\ HasKey(row, "Expected")

\* the priority list of Expected columns of pair k
ExpectedPriority(k) ==
    <<IF k = 1 THEN "Expected" ELSE ExpectedUnderscoreCol(k - 1), ExpectedKCol(k)>>

\* the positions of the list whose column is the first non-blank one
FirstNonBlank(r, cols) ==
    {i \in 1..Len(cols) :
        /\ ~isBlank(Get(r, cols[i]))
        /\ \A j \in 1..(i - 1) : isBlank(Get(r, cols[j]))}

\* C5: the expectation of the assistant turn of pair k is the trimmed value of
\* the first non-blank column of the priority list (Expected for k = 1 or
\* Expected_{k-1} for k >= 2, then Expected{k}), and null when every column of
\* the list is blank or missing.
C5_ExpectedPriority ==
    \A i \in 1..Len(dec.msgs) :
        dec.msgs[i].role = "assistant" =>
            LET k == dec.msgs[i].exchangeIndex + 1
                cols == ExpectedPriority(k)
                hit == FirstNonBlank(row, cols)
                e == dec.msgs[i].expected
            IN  IF hit = {}
                THEN e = Null
                ELSE \A p \in hit :
                        /\ e.t = "string"
                        /\ e.s = Trim(Get(row, cols[p]).s)
                        /\ e.s # <<>>
                        /\ ~IsSpace(Head(e.s)) /\ ~IsSpace(e.s[Len(e.s)])

\* an assistant turn of pair 2 whose expectation came from the fallback column
\* Expected2 because Expected_1 is present and blank
C5_Witness ==
    /\ dec.done
    /\ HasKey(row, "Expected_1") /\ isBlank(Get(row, "Expected_1"))
    /\ ~isBlank(Get(row, "Expected2"))
    /\ \E i \in 1..Len(dec.msgs) :
          /\ dec.msgs[i].role = "assistant"
          /\ dec.msgs[i].exchangeIndex = 1
          /\ dec.msgs[i].expected = Str(<<"z">>)

-----------------------------------------------------------------------------
(* Properties of the single-select filters and of remote ingestion *)

\* every row of allRows, in order
EveryRow == [i \in 1..Len(allRows) |-> i]

\* every dropdown buildFilters made shows "All"
AllDropdownsAtAll == \A c \in DOMAIN activeFilters : activeFilters[c] = Null

\* C7: a filter column that is absent from the data, or blank in every row,
\* imposes no filter: with every filter dropdown at "All", the filtered list
\* is every row of allRows.
C7_AbsentColumnNoFilter == AllDropdownsAtAll => filteredRows = EveryRow

\* a step in which the submit handler resumes after a fetch that failed
FailedAddChatStep ==
    \E i \in 1..Len(fetch) :
        /\ fetch[i].status \in {"http_error", "network_error"}
        /\ fetch' = RemoveAt(fetch, i)

\* a step of the submit handler: its start, or its resumption after a failed fetch
FailingSubmissionStep ==
    \/ addChatBtn = "enabled" /\ addChatBtn' = "disabled"
    \/ FailedAddChatStep

\* C10: when the fetch of an Add Chat submission fails (non-2xx status or
\* network error), no step of the handler changes allRows - same rows, same
\* contents, none appended - and the handler ends by showing an error message.
C10_FailedFetchKeepsRows ==
    [][/\ FailingSubmissionStep => allRows' = allRows
       /\ FailedAddChatStep => alertMsg' = "Error adding chat"]_vars

\* the handler has ended after a failed fetch on a sheet that has rows
C10_Witness ==
    /\ alertMsg = "Error adding chat"
    /\ allRows # <<>>
    /\ fetch = <<>>
    /\ addChatBtn = "enabled"

-----------------------------------------------------------------------------
(* Properties of the multi-select filters *)

\* the columns a selection is kept for
FilteredCols == DOMAIN activeFilters

\* the rows of allRows that pass, by the test passes(r, col), every column
RowsPassing(passes(_, _)) ==
    SelectSeq(EveryRow, LAMBDA i : \A col \in FilteredCols : passes(allRows[i], col))

\* a blank value passes; a non-blank value passes iff it is selected
PassesSelection(r, col) ==
    \/ stableValue(Get(r, col)) = <<>>
    \/ stableValue(Get(r, col)) \in activeFilters[col]

\* as PassesSelection, and an empty selection lets every value pass
PassesNonEmptySelection(r, col) ==
    \/ activeFilters[col] = {}
    \/ PassesSelection(r, col)

\* C6 as stated: whatever subset of a column's values is selected, a row is in
\* the filtered list iff in every filtered column its value is blank or is
\* in the selected subset.
C6_EverySubset == filteredRows = RowsPassing(PassesSelection)

\* C6: for every filtered column and every non-empty subset S of its
\* distinct values selected by the user, a row with a blank value passes the
\* column's filter and a row with a non-blank value passes iff the value is in
\* S; a column whose selection is empty lets every row pass; a row is in the
\* filtered list iff it passes every column's filter.
C6_NonEmptySubset == filteredRows = RowsPassing(PassesNonEmptySelection)

\* a non-empty proper selection that keeps a row with a blank value in a
\* filtered column and drops another row
C6_Witness ==
    /\ \E col \in FilteredCols :
          /\ activeFilters[col] # {}
          /\ activeFilters[col] # filterOptions[col]
    /\ \E n \in 1..Len(filteredRows) : \E col \in FilteredCols :
          /\ activeFilters[col] # {}
          /\ stableValue(Get(allRows[filteredRows[n]], col)) = <<>>
    /\ Len(filteredRows) < Len(allRows)

-----------------------------------------------------------------------------
(* Properties of remote ingestion: the row built from the exchanges *)

\* a step in which the submit handler resumes after a fetch that succeeded
SucceededAddChatStep ==
    \E i \in 1..Len(fetch) :
        /\ fetch[i].status = "ok"
        /\ fetch' = RemoveAt(fetch, i)

\* the exchanges of the fetch the handler resumes with
ResumedExchanges ==
    LET i == CHOOSE j \in 1..Len(fetch) : fetch' = RemoveAt(fetch, j)
    IN  fetch[i].exchanges

\* created_at in tenths of a second, for a numeral with at most one decimal
Tenths(v) ==
    LET s == String(v)
        dot == {i \in 1..Len(s) : s[i] = "."}
    IN  IF dot = {} THEN DigitPrefixVal(s, 0) * 10
        ELSE DigitPrefixVal(s, 0) * 10
             + DigitPrefixVal(SubSeq(s, (CHOOSE i \in dot : TRUE) + 1, Len(s)), 0)

\* the orders of 1..n
Orders(n) == {p \in [1..n -> 1..n] : \A i, j \in 1..n : p[i] = p[j] => i = j}

\* the cell holds the field of the exchange, a missing field being a blank cell
HoldsField(cell, field) ==
    \/ cell = field
    \/ isBlank(field) /\ cell = Str(<<>>)

\* r is the row of the exchanges taken in the order p
IsRowOfExchanges(r, exchanges, p) ==
    LET n == Len(exchanges)
    IN  /\ \A k \in 1..n :
              /\ HoldsField(Get(r, QCol(k)), exchanges[p[k]].query)
              /\ HoldsField(Get(r, RCol(k)), exchanges[p[k]].response)
              /\ HasKey(r, NCol(k)) /\ Get(r, NCol(k)) = Str(<<>>)
              /\ HasKey(r, PairExpectedCol(k)) /\ Get(r, PairExpectedCol(k)) = Str(<<>>)
        /\ \A c \in Keys(r) :
              (MatchesQ(c) \/ MatchesR(c) \/ MatchesN(c) \/ MatchesExpected(c)) =>
                 \E k \in 1..n : c \in {QCol(k), RCol(k), NCol(k), PairExpectedCol(k)}

\* C11: a successful Add Chat appends exactly one row at the end of allRows,
\* whose Q{k} and R{k} (k = 1..n) are the query and response of the k-th of
\* the n exchanges in ascending created_at order, with N{k} and the pair's
\* Expected column blank and no Q/R/N/Expected column of an index above n.
C11_RowOfSortedExchanges ==
    [][SucceededAddChatStep =>
         /\ Len(allRows') = Len(allRows) + 1
         /\ SubSeq(allRows', 1, Len(allRows)) = allRows
         /\ \E p \in Orders(Len(ResumedExchanges)) :
               /\ \A i, j \in DOMAIN p :
                     i < j => Tenths(ResumedExchanges[p[i]].created_at)
                                <= Tenths(ResumedExchanges[p[j]].created_at)
               /\ IsRowOfExchanges(allRows'[Len(allRows')], ResumedExchanges, p)]_vars

\* the integer Ids of the rows in memory
IntegerIds(rows) ==
    {parseInt(Get(rows[i], "Id"))[1] :
        i \in {j \in 1..Len(rows) : parseInt(Get(rows[j], "Id")) # <<>>}}

\* C12: the row a successful ingestion appends has an Id strictly greater
\* than the integer Id of every row in memory at that moment, after any
\* sequence of loads, edits and ingestions.
C12_IngestedIdAboveAll ==
    [][SucceededAddChatStep =>
         \A id \in IntegerIds(allRows) :
            parseInt(Get(allRows'[Len(allRows')], "Id"))[1] > id]_vars

-----------------------------------------------------------------------------
(* Properties of the date handling *)

\* a text that neither the Date constructor nor parseDateString reads as a date
IsMalformedDate(v) ==
    /\ v.t = "string" /\ Truthy(v)
    /\ NumberOf(v) = <<>>
    /\ ~DateFromString(v.s).valid
    /\ parseDateString(v).t = "null"

\* C14: a Date value that cannot be parsed as a date never raises: no handler
\* (export, metadata edit) lets an exception escape, and an export that
\* completes carries the malformed value unchanged in the Date column.
C14_MalformedDateNeverRaises ==
    [][/\ uncaught' = ""
       /\ wsData' # wsData =>
             \A i \in 1..Len(allRows) :
                IsMalformedDate(Get(allRows[i], "Date")) =>
                   \E j \in 1..Len(wsData'[1]) :
                      /\ wsData'[1][j] = "Date"
                      /\ wsData'[i + 1][j] = Get(allRows[i], "Date")]_vars

-----------------------------------------------------------------------------
(* Properties of the selection *)

\* a step of loadSheet, or of the change handler of a filter dropdown
LoadOrFilterStep ==
    \/ \E sheet \in Sheets : LoadSheet(sheet)
    \/ \E col \in DOMAIN filterOptions :
          \E v \in filterOptions[col] \cup {<<>>} : FilterChange(col, v)

\* C13: after a workbook load or a filter change the active index is 0 when
\* the filtered list is non-empty and none (null) when it is empty; a click on
\* list entry i sets the active index to i.
C13_SelectionTransitions ==
    [][/\ LoadOrFilterStep =>
             activeIndex' = IF filteredRows' # <<>> THEN <<0>> ELSE NoSelection
       /\ \A i \in 0..(Len(filteredRows) - 1) : ClickRow(i) => activeIndex' = <<i>>]_vars

\* a filter value is selected, the list is shorter than allRows and its first
\* entry is the active one
C13_Witness ==
    /\ \E col \in DOMAIN activeFilters : activeFilters[col] # Null
    /\ filteredRows # <<>>
    /\ Len(filteredRows) < Len(allRows)
    /\ activeIndex = <<0>>

-----------------------------------------------------------------------------
(* Properties of the Add Chat button *)

\* C15: from the start of an Add Chat fetch until it completes the Add Chat
\* button stays disabled whatever other UI events occur, so at most one
\* add-chat fetch is in flight at any time; the button is enabled again when
\* the fetch completes, on success and on failure.
C15_ButtonDisabledWhileFetching ==
    /\ Len(fetch) <= 1
    /\ fetch # <<>> => addChatBtn = "disabled"

\* C16: in every state of the project picklist no two projects, in memory or
\* in local storage, have names that are equal ignoring case, and every name
\* is stored trimmed, given that the list read from local storage at page
\* load was so
C16_NoTwoProjectsAlike ==
    /\ NoTwoNamesAlike(projects) /\ NamesTrimmed(projects)
    /\ NoTwoNamesAlike(projectsOf(localStorage)) /\ NamesTrimmed(projectsOf(localStorage))

\* a project was added next to another and a name differing from a stored one
\* only by case or surrounding blanks was turned down
C16_Witness ==
    /\ Len(projects) >= 2
    /\ localStorage = <<projects>>
    /\ alertMsg = "A project with this name already exists!"
    /\ \A i \in 1..Len(projects) : projects[i].name # addProjectForm.newProjectName

\* the typed name, trimmed, equals the name of a listed project ignoring case
IsDuplicateName(list, name) ==
    \E i \in 1..Len(list) : toLowerCase(list[i].name) = toLowerCase(Trim(name))

\* C17: a submission of the Add Project form whose name, after trimming,
\* equals a listed project's name ignoring case shows the alert, leaves the
\* form filled (addProject returned false) and leaves the list in memory and
\* the local-storage entry as they were
C17_DuplicateIsNoOp ==
    [][\A name \in NamesTyped : \A description \in DescriptionsTyped :
          AddProjectSubmit(name, description) /\ IsDuplicateName(projects, name)
          => /\ alertMsg' = "A project with this name already exists!"
             /\ addProjectForm' = [newProjectName |-> name,
                                   projectDescription |-> description]
             /\ projects' = projects
             /\ localStorage' = localStorage
             /\ projectNameSelect' = projectNameSelect]_vars

\* a name that differs from a listed one by case and by a trailing blank was
\* submitted and turned down
C17_Witness ==
    /\ alertMsg = "A project with this name already exists!"
    /\ addProjectForm.newProjectName = <<"A", " ">>
    /\ \E i \in 1..Len(projects) : projects[i].name = <<"a">>

\* C18: in every state activeIndex is null or a number i with
\* 0 <= i < filteredRows.length, also right after a successful Add Chat
C18_ActiveIndexInRange ==
    activeIndex = NoSelection \/ activeIndex[1] \in 0..(Len(filteredRows) - 1)

\* C19: whenever activeIndex is a number i, the row the detail view shows is
\* filteredRows[i], the row the list highlights
C19_DetailShowsActiveRow ==
    activeIndex # NoSelection =>
        /\ activeIndex[1] \in 0..(Len(filteredRows) - 1)
        /\ currentRow # NoSelection
        /\ allRows[currentRow[1]] = allRows[filteredRows[activeIndex[1] + 1]]

\* the non-blank Q and R cells of the pairs below index k, as <<pair, side>>
\* with side 0 for Q{pair} and side 1 for R{pair}
DueBelow(r, k) ==
    {<<j, 0>> : j \in {i \in 1..(k - 1) : ~isBlank(Get(r, QCol(i)))}}
    \cup {<<j, 1>> : j \in {i \in 1..(k - 1) : ~isBlank(Get(r, RCol(i)))}}

\* the place of the cell e among the cells of S: by pair, Q before R
PlaceOf(S, e) == 1 + Cardinality({d \in S : 2 * d[1] + d[2] < 2 * e[1] + e[2]})

\* C20: the turns rowToMessages has pushed when its loop is at index k are,
\* in ascending order of the pairs below k, one user turn with text
\* String(Q{j}) for each non-blank Q{j}, followed by one assistant turn with
\* text String(R{j}) and exchangeIndex j-1 for each non-blank R{j}, and nothing
\* for a pair whose Q and R are both blank; the loop ends at the stop index
C20_TurnPerNonBlankCell ==
    LET due == DueBelow(row, dec.k)
    IN  /\ Len(dec.msgs) = Cardinality(due)
        /\ \A e \in due :
              LET m == dec.msgs[PlaceOf(due, e)]
              IN  IF e[2] = 0
                  THEN /\ m.role = "user"
                       /\ m.text = String(Get(row, QCol(e[1])))
                  ELSE /\ m.role = "assistant"
                       /\ m.text = String(Get(row, RCol(e[1])))
                       /\ m.exchangeIndex = e[1] - 1
        /\ dec.done => dec.k = FirstStop(row)

\* a finished decoding of a row with R1 but no Q1, a blank pair 2 and a full
\* pair 3: assistant, user, assistant
C20_Witness ==
    /\ dec.done
    /\ isBlank(Get(row, QCol(1))) /\ ~isBlank(Get(row, RCol(1)))
    /\ PairBlank(row, 2)
    /\ ~isBlank(Get(row, QCol(3))) /\ ~isBlank(Get(row, RCol(3)))
    /\ Len(dec.msgs) = 3

-----------------------------------------------------------------------------
(* Properties of the edits in the detail view *)

\* the step wrote v into column c of the row the detail view shows - a row of
\* allRows - and into nothing else: the other columns of that row and the
\* other rows are as before
OnlyColumnSet(c, v) ==
    /\ Len(allRows') = Len(allRows)
    /\ \A j \in 1..Len(allRows) : j # currentRow[1] => allRows'[j] = allRows[j]
    /\ Get(allRows'[currentRow[1]], c) = v
    /\ Keys(allRows'[currentRow[1]]) = Keys(allRows[currentRow[1]]) \cup {c}
    /\ \A d \in Keys(allRows[currentRow[1]]) \ {c} :
          Get(allRows'[currentRow[1]], d) = Get(allRows[currentRow[1]], d)

\* C21: a note edit on exchange i of a row changes only column N{i+1} of that
\* row, and an expectation edit changes only column Expected (i = 0) or
\* Expected_{i} (i >= 1); the value is in the row of allRows right after the
\* step, and every other column of the row and every other row is unchanged.
C21_EditChangesOneColumn ==
    [][allRows' # allRows =>
       \A i \in 0..(MaxPair - 1) :
          /\ \A text \in NoteTexts :
                UpdateNote(i, text) =>
                    OnlyColumnSet("N" \o ToString(i + 1), Str(text))
          /\ \A text \in ExpectedOptions :
                UpdateExpected(i, text) =>
                    OnlyColumnSet(IF i = 0 THEN "Expected" ELSE "Expected_" \o ToString(i),
                                  Str(text))]_vars

\* the note and the expectation of the second exchange of a row were edited,
\* and the expectation of its first exchange was set and then cleared
C21_Witness ==
    \E j \in 1..Len(allRows) :
        /\ Get(allRows[j], "N2") = Str(<<"n">>)
        /\ Get(allRows[j], "Expected_1") = Str(<<"N", "o">>)
        /\ Get(allRows[j], "Expected") = Str(<<>>)
        /\ ~HasKey(allRows[j], "N1")

\* a step of loadSheet
LoadStep == \E sheet \in RowSheets : LoadSheet(sheet)

\* new is the row object old after at most one assignment to one of its
\* columns: no column is gone and at most one holds another value
RowKept(old, new) ==
    /\ Keys(old) \subseteq Keys(new)
    /\ Cardinality({c \in Keys(new) : Get(new, c) # Get(old, c)}) <= 1

\* C22: no operation other than loading a sheet removes or reorders rows:
\* after a note, expectation or metadata edit, a filter change, a selection
\* change, an export and a failed or successful ingestion every row that was
\* in allRows is still there at the same position, and an ingestion only
\* appends one row at the end.
C22_RowsKeptInPlace ==
    [][~LoadStep =>
          /\ Len(allRows') \in {Len(allRows), Len(allRows) + 1}
          /\ \A j \in 1..Len(allRows) : RowKept(allRows[j], allRows'[j])]_vars

\* a chat was ingested next to the row of a sheet that was edited and exported
C22_Witness ==
    /\ Len(allRows) = 2
    /\ alertMsg = "Chat added successfully!"
    /\ wsData # <<>>
    /\ Get(allRows[1], "N1") = Str(<<"n">>)
    /\ Get(allRows[1], "Priority") = Str(<<"L">>)
    /\ Get(allRows[2], "Expected") = Str(<<"Y", "e", "s">>)

-----------------------------------------------------------------------------
(* Properties of the display and the export of dates *)

\* formatDateValue renders the value of a Date cell as a date text
RendersAsDate(v) ==
    /\ v.t = "number"
    /\ formatDateValue(v, "Date") # stableValue(v)

\* C23: the export conversion is the inverse of the load-time conversion: for
\* every integer serial number n of a Date cell that formatDateValue renders
\* as a date text "Month Day, Year", convertToExcelDate of that text returns n.
C23_ExportInvertsDisplay ==
    \A i \in 1..Len(allRows) :
        RendersAsDate(Get(allRows[i], "Date")) =>
            convertToExcelDate(Str(formatDateValue(Get(allRows[i], "Date"), "Date")))
                = Returns(Get(allRows[i], "Date"))

-----------------------------------------------------------------------------
(* Properties of the expectation edit, of the filtered list and of the chat
   dropdown *)

\* the expectation rowToMessages reports for the assistant turn of exchange i
ExpectedDecoded(r, i) ==
    (CHOOSE m \in Range(rowToMessages(r)) :
        m.role = "assistant" /\ m.exchangeIndex = i).expected

\* C24: after updateExpectedInRow(row, i, v), decoding the row reports
\* expectation v for the assistant turn with exchangeIndex i when v is
\* non-blank and null when v is blank (the "Not Set" choice), whichever
\* Expected column the previous value was read from.
C24_EditedExpectationDecoded ==
    [][allRows' # allRows =>
       \A i \in 0..(MaxPair - 1) : \A text \in ExpectedOptions :
          UpdateExpected(i, text) =>
              ExpectedDecoded(allRows'[currentRow[1]], i)
                  = IF text = <<>> THEN Null ELSE Str(text)]_vars

\* C25: in every state the filtered list is the list of the rows that satisfy
\* the active filters, filteredRows = applyFilters(allRows), also after a
\* metadata edit of a filter column such as Priority.
C25_FilteredRowsPassFilters ==
    filteredRows = applyFilters(allRows, activeFilters)

\* C26: in the revision with project and chat dropdowns the Add Chat button
\* is enabled only while a chat is selected in the chat dropdown, after any
\* sequence of project changes, chat searches, chat selections and completed
\* submissions; so no exchanges fetch is issued with an empty chat id.
C26_ButtonEnabledOnlyWithChat ==
    /\ addChatBtn = "enabled" => chatForm.chatId # <<>>
    /\ \A i \in 1..Len(fetch) : fetch[i].chatId # Str(<<>>)

\* the chat list the service holds for the project chosen in the form
ChatsOfSelected ==
    IF chatForm.projectId = <<>> THEN <<>> ELSE UsableChats(ChatsOf(chatForm.projectId))

\* C27: once every chat-list fetch has completed, the chat list offered
\* (availableChats) is the list fetched for the project that is selected - or
\* empty when that fetch failed - also when the project was changed while an
\* earlier fetch was in flight, in whatever order the responses arrive.
C27_ChatsOfSelectedProject ==
    chatForm.chatsFetch = <<>> =>
        chatForm.availableChats \in {ChatsOfSelected, <<>>}

-----------------------------------------------------------------------------
(* Properties of the workbook loading *)

\* C28: when a second workbook file is selected while the first is still
\* being read, then after both reads have ended the rows in memory, the sheet
\* list and the current sheet all come from the file selected last, whichever
\* read ends first.
C28_LastSelectedFileShown ==
    (fileInput.reading = <<>> /\ fileInput.file # <<>>) =>
        /\ fileInput.wb = fileInput.file
        /\ fileInput.sheetNames = SheetNamesOf(fileInput.file[1])
        /\ fileInput.currentSheet # <<>>
        /\ fileInput.currentSheet[1] \in Range(SheetNamesOf(fileInput.file[1]))
        /\ allRows = RowsOfSheet(fileInput.file[1], fileInput.currentSheet[1])

-----------------------------------------------------------------------------
(* Properties of the exported cells *)

\* C29: for every row and every column of the exported header other than
\* Date, the exported cell equals the row's value in that column, and is blank
\* exactly when the row lacks the column or holds a blank value there.
C29_ExportedCellIsRowValue ==
    wsData # <<>> =>
        \A i \in 1..Len(allRows) : \A j \in 1..Len(wsData[1]) :
            wsData[1][j] # "Date" =>
                /\ HasKey(allRows[i], wsData[1][j]) =>
                      wsData[i + 1][j] = Get(allRows[i], wsData[1][j])
                /\ isBlank(wsData[i + 1][j]) <=> isBlank(Get(allRows[i], wsData[1][j]))

-----------------------------------------------------------------------------
(* Properties of the Date field of the detail view *)

\* the calendar day a Date value denotes, as <<day>>: the day of a serial
\* number counted from 1899-12-30, the day a text names; <<>> for a value that
\* denotes no day
DayDenoted(v) ==
    IF RendersAsDate(v) THEN <<DayNumber(1899, 11, 30) + NumberOf(v)[1]>>
    ELSE IF v.t = "string" /\ parseDateString(v).t # "null" /\ parseDateString(v).valid
    THEN <<LocalDay(parseDateString(v))>>
    ELSE <<>>

\* C30: committing a Date field whose displayed text was not changed (focus,
\* then blur) leaves the row's date denoting the same calendar day in every
\* time zone of the browser, however often the field is rendered and
\* committed.
C30_UnchangedCommitKeepsDay ==
    [][(/\ currentRow # NoSelection
        /\ allRows' # allRows
        /\ UpdateMetadata("Date", metaInputValue(allRows[currentRow[1]], "Date")))
       => DayDenoted(Get(allRows'[currentRow[1]], "Date"))
              = DayDenoted(Get(allRows[currentRow[1]], "Date"))]_vars

====
